---- MODULE Spec2Model ----
(***************************************************************************)
(* Model of gomisc/containers: the subnet allocator (src/network.go) and   *)
(* the container lifecycle controller (src/container.go).                  *)
(***************************************************************************)
EXTENDS Integers, Sequences, FiniteSets, TLC

(***************************************************************************)
(* Bounds of the model.                                                    *)
(***************************************************************************)
\* total number of GetFreeSubnet calls made on the allocator
MaxCalls == 3

\* CreateContainer calls on one controller
MaxCreates == 2

\* network removals made during one run of the allocator
MaxRemovals == 1
\* number of goroutines calling GetFreeSubnet concurrently
NumAllocCallers == 2
\* number of goroutines calling Stop() besides StartContainer itself
NumStoppers == 1
\* number of Stop() calls they make in total
MaxStopCalls == 2
\* number of port bindings of the container started by StartContainer
NumPorts == 2
\* longest sequence of port bindings given to CreateContainer
MaxBinds == 2
\* number of AddContainer calls made on a registry
MaxAdds == 3
\* number of HostIP/NextIP calls made on a network
MaxIPCalls == 2

(***************************************************************************)
(* Program constants of the allocator.                                     *)
(***************************************************************************)
\* net.IPv4(172, 16, 0, 0): first and second octet of the supernet
SupernetOctet1 == 172
SupernetOctet2 == 16
\* net.IPv4Mask(255, 240, 0, 0).Size(): the supernet is a /12
SupernetOnes == 12
\* net.IPv4Mask(255, 255, 0, 0): a zone is a /16
ZoneOnes == 16
\* net.IPv4Mask(255, 255, 255, 0): a subnet is a /24
SubnetOnes == 24
\* for si := 0; si < 255; si++
SubnetScanLimit == 255

(***************************************************************************)
(* Program constants of the lifecycle controller.                          *)
(***************************************************************************)
\* time.Duration(0): the grace period Stop() passes to the engine
StopGrace == 0
\* c.containerID[:12]: the length the id is truncated to
TruncatedIDLen == 12

(***************************************************************************)
(* Program constants of the registry.                                      *)
(***************************************************************************)
\* maxTypeID uint8 = 40: the length of the array nw.containers
maxTypeID == 40
\* lb > 2 && lb < 254: the open range of the last octet of a usable address
LowOctet == 2
HighOctet == 254

(***************************************************************************)
(* IPv4 networks: an address is its four octets (net.IP), a network        *)
(* (net.IPNet) is an address and the number of leading ones of its mask.   *)
(***************************************************************************)
Pow2(n) == 2 ^ n

IPv4(a, b, c, d) == <<a, b, c, d>>

\* number of mask bits falling into octet i of a mask with the given ones
OctetBits(ones, i) ==
    IF ones - 8 * (i - 1) < 0 THEN 0
    ELSE IF ones - 8 * (i - 1) > 8 THEN 8 ELSE ones - 8 * (i - 1)

\* ip.Mask(mask): every octet and-ed with the octet of the mask
MaskIP(ip, ones) ==
    [i \in 1..4 |-> ip[i] - (ip[i] % Pow2(8 - OctetBits(ones, i)))]

IPNet(ip, ones) == [ip |-> ip, ones |-> ones]

\* net.ParseCIDR: the network of "addr/ones" is the address masked to ones bits
ParseCIDR(addr, ones) == IPNet(MaskIP(addr, ones), ones)

\* net.IPNet.String(): "a.b.c.d/ones", the key of the used table
String(n) == <<n.ip[1], n.ip[2], n.ip[3], n.ip[4], n.ones>>

\* the zero value standing for a nil *net.IPNet
NilNet == IPNet(<<0, 0, 0, 0>>, 0 - 1)

\* two address blocks intersect: they agree on the shorter of the two prefixes
Overlaps(m, n) ==
    LET k == IF m.ones < n.ones THEN m.ones ELSE n.ones
    IN  MaskIP(m.ip, k) = MaskIP(n.ip, k)

(***************************************************************************)
(* Inputs: the reserved ranges of RESERVED_NETWORKS and the lists the      *)
(* engine's NetworkList may return.                                        *)
(***************************************************************************)
Zone16(b) == IPNet(IPv4(SupernetOctet1, b, 0, 0), ZoneOnes)
Sub24(b, c) == IPNet(IPv4(SupernetOctet1, b, c, 0), SubnetOnes)

\* the sequence <<f[lo], ..., f[hi]>>
SeqOf(f, lo, hi) == [i \in 1..(hi - lo + 1) |-> f[lo + i - 1]]

\* each entry is "addr/ones" as written in the environment variable
ReservedConfigs ==
    << <<>>,
       << <<IPv4(172, 16, 0, 0), 16>> >>,
       << <<IPv4(172, 16, 0, 77), 24>> >>,
       << <<IPv4(172, 16, 0, 0), 20>> >>,
       << <<IPv4(10, 0, 0, 0), 8>>, <<IPv4(192, 168, 7, 9), 16>> >> >>

EngineLists ==
    << <<>>,
       << Sub24(16, 0), Sub24(16, 1) >>,
       << ParseCIDR(IPv4(172, 16, 0, 0), 20), ParseCIDR(IPv4(172, 16, 16, 128), 25),
          ParseCIDR(IPv4(192, 168, 1, 0), 24) >>,
       SeqOf([b \in 16..27 |-> Zone16(b)], 16, 27),
       SeqOf([c \in 0..254 |-> Sub24(16, c)], 0, 254)
         \o SeqOf([b \in 17..31 |-> Zone16(b)], 17, 31) >>

AllocCallers == 1..NumAllocCallers

VARIABLES
    used,        \* na.used: map from CIDR string to prefix length
    mu,          \* na.mu: 0 when free, else the caller holding it
    apc,         \* position of each caller inside GetFreeSubnet
    pick,        \* the subnet the scan of each caller selected
    listed,      \* index of the list NetworkList gave each caller
    returned,    \* results of the GetFreeSubnet calls, in order of return
    reservedCfg, \* index of the reserved configuration of the constructor
    calls,       \* number of GetFreeSubnet calls begun
    overlapped,  \* whether the call of each caller ran while another call was open
    removed      \* the network removals: <<index of the result, results returned by then>>

VARIABLES
    containerID,    \* c.containerID: the characters of the id, <<>> when unset
    stopped,        \* c.stopped
    cmutex,         \* c.mutex: the set of its holders, {} when free
    spc,            \* position of each caller inside Stop()
    sres,           \* what Stop() returned to each caller
    scalls,         \* number of Stop() calls each caller has begun
    engineStops,    \* the client.ContainerStop invocations, in order
    stopLog,        \* the Stop() calls in order of return
    everConcurrent, \* whether a Stop() call ever began while another was open
    mpc,            \* position of the goroutine running Create/StartContainer
    result,         \* what StartContainer returned
    outcome,        \* the case the startup select took
    contested,      \* whether another case of the select was ready as well
    background,     \* c.Background
    readySupplied,  \* whether the ready argument of StartContainer is non-nil
    readyCloses,    \* number of close(ready) executed
    deadline,       \* the startup context's timer
    probe,          \* the readiness probe's goroutine
    proc,           \* the container process
    waitPc,         \* the goroutine started by c.wait()
    exitVal,        \* the value the exit-wait goroutine sends on exitCh
    sig,            \* the external stop signal on sigCh
    exitStatus,     \* the ContainerStatus the exit-wait goroutine received
    engineStatuses, \* the statuses the engine's ContainerWait may report
    client,         \* c.client: "docker" for the Docker adapter, "contract" for any Client
    startInfo,      \* info: what ContainerStart returned to StartContainer
    hostLeft,       \* the keys of info.PortBinds the host loop has not visited yet
    hostAddress,    \* c.hostAddress: the host-side endpoints, by name
    logCtx,         \* logContext of the log-streaming task
    hostWrites,     \* number of writes made to c.hostAddress
    contWrites,     \* number of writes made to c.containerAddress
    registered      \* number of c.network.AddContainer calls made

allocVars == <<used, mu, apc, pick, listed, returned, reservedCfg, calls, overlapped, removed>>

stopVars == <<stopped, cmutex, spc, sres, scalls, engineStops, stopLog, everConcurrent>>

\* what the setup phase of StartContainer writes
setupVars == <<hostWrites, contWrites, registered>>

infoVars == <<client, startInfo, hostLeft, hostAddress>>

startVars == <<containerID, mpc, result, outcome, contested, background, readySupplied,
               readyCloses, deadline, probe, proc, waitPc, exitVal, sig, exitStatus,
               engineStatuses, logCtx, setupVars, infoVars>>

lifeVars == <<stopVars, startVars>>

VARIABLES
    cPorts,       \* c.Ports: the sequence of port bindings
    portnames,    \* c.portnames: the name index, from stringified port to name
    cmd,          \* c.Cmd
    startTimeout, \* c.StartTimeout: an int64 of nanoseconds, as its 8 bytes
    dbg,          \* c.DebugPort
    factorEnv,    \* the value of DEBUG_START_TIMEOUT_FACTOR in the environment
    errLog,       \* number of c.LogStderr calls made by the controller
    createRes,    \* what CreateContainer returned
    creates       \* number of CreateContainer calls made on the controller

VARIABLES
    containers,   \* nw.containers: the buckets of the registry, by type identifier
    adds,         \* number of AddContainer calls made
    lastAdd       \* the last AddContainer call and how it ended

VARIABLES
    nwSubnet,     \* nw.subnet: the network the range was made of
    cursor,       \* nw.subnet: number of addresses of the range already passed
    members,      \* the addresses of the endpoints the engine holds for the network
    ipc,          \* position of the caller inside HostIP/NextIP
    ipOp,         \* the method called: "HostIP" or "NextIP"
    cand,         \* ip: the address under examination, <<>> for ""
    lastCheck,    \* the last isFreeIP call: its argument, what the engine reported, its result
    ipCalls,      \* number of HostIP/NextIP calls begun
    ipResult      \* what the last HostIP/NextIP call returned

ipVars == <<nwSubnet, cursor, members, ipc, ipOp, cand, lastCheck, ipCalls, ipResult>>

confVars == <<cPorts, portnames, cmd, startTimeout, dbg, factorEnv, errLog, createRes, creates>>

regVars == <<containers, adds, lastAdd>>

restVars == <<confVars, regVars, ipVars>>

vars == <<allocVars, removed, lifeVars, restVars>>

(***************************************************************************)
(* NewNetworkAllocator                                                     *)
(***************************************************************************)
\* the map after the assignments m[String(list[i])] = list[i].ones, made for
\* i = 1..Len(list). String is one-to-one and ends in the prefix length, so
\* every entry written under key k carries the prefix length k[5]
FoldList(u, list) ==
    LET keys == {String(list[i]) : i \in 1..Len(list)}
    IN  [k \in DOMAIN u \cup keys |-> IF k \in keys THEN k[5] ELSE u[k]]

\* the loop over the reserved ranges: na.used[reserve.String()] = sz
NewNetworkAllocator(reserved) ==
    FoldList(<<>>, [i \in 1..Len(reserved) |-> ParseCIDR(reserved[i][1], reserved[i][2])])

(***************************************************************************)
(* getUsedNetworks                                                         *)
(***************************************************************************)
\* the loop over the engine's list: na.used[list[li].String()] = sz
GetUsedNetworks(u, list) == FoldList(u, list)

(***************************************************************************)
(* GetFreeSubnet: the scan                                                 *)
(***************************************************************************)
\* max, _ := na.addr.Mask.Size(); the zone loop runs ni < IP[1] + max
ZoneLoopEnd == SupernetOctet2 + SupernetOnes

\* if sz, ok := na.used[global.String()]; !ok || sz != 16
ZoneEligible(u, ni) ==
    LET global == IPNet(IPv4(SupernetOctet1, ni % 256, 0, 0), ZoneOnes)
    IN  String(global) \notin DOMAIN u \/ u[String(global)] # 16

\* a scan that takes the last absent subnet of the zone instead of the first
ScanSubnetsLast(u, ni) ==
    LET subnet(si) == IPNet(IPv4(SupernetOctet1, ni % 256, si % 256, 0), SubnetOnes)
        absent == {si \in 0..(SubnetScanLimit - 1) : String(subnet(si)) \notin DOMAIN u}
    IN  IF absent = {} THEN NilNet
        ELSE subnet(CHOOSE si \in absent : \A sj \in absent : si >= sj)

\* the inner loop: the first si in 0..254 whose subnet is no key of the table
ScanSubnets(u, ni) ==
    LET subnet(si) == IPNet(IPv4(SupernetOctet1, ni % 256, si % 256, 0), SubnetOnes)
        absent == {si \in 0..(SubnetScanLimit - 1) : String(subnet(si)) \notin DOMAIN u}
    IN  IF absent = {} THEN NilNet
        ELSE subnet(CHOOSE si \in absent : \A sj \in absent : si <= sj)

RECURSIVE ScanZones(_, _)
ScanZones(u, ni) ==
    IF ni >= ZoneLoopEnd THEN NilNet
    ELSE IF ZoneEligible(u, ni)
         THEN LET s == ScanSubnets(u, ni)
              IN  IF s # NilNet THEN s ELSE ScanZones(u, ni + 1)
         ELSE ScanZones(u, ni + 1)

\* a reservation that leaves the table as it was
ReserveForgets(u, subnet) == u

\* na.used[subnet.String()] = 24
Reserve(u, subnet) == (String(subnet) :> 24) @@ u

\* a lock that never blocks
MutexIgnored == TRUE

\* na.mu.Lock() succeeds only when nobody holds the mutex
MutexFree == mu = 0

(***************************************************************************)
(* Strings are sequences of characters; strconv.Itoa, strings.Split and    *)
(* strconv.Atoi work on them (src/port.go, src/container.go)               *)
(***************************************************************************)
Digits == <<"0", "1", "2", "3", "4", "5", "6", "7", "8", "9">>

IsDigit(ch) == \E d \in 1..10 : Digits[d] = ch

DigitValue(ch) == (CHOOSE d \in 1..10 : Digits[d] = ch) - 1

RECURSIVE Itoa(_)
\* strconv.Itoa of a non-negative number: its decimal digits
Itoa(n) == IF n < 10 THEN <<Digits[n + 1]>> ELSE Itoa(n \div 10) \o <<Digits[(n % 10) + 1]>>

RECURSIVE Split(_, _)
\* strings.Split(s, sep) for a separator of one character
Split(s, sep) ==
    IF \E i \in 1..Len(s) : s[i] = sep
    THEN LET i == CHOOSE i \in 1..Len(s) : s[i] = sep /\ \A j \in 1..(i - 1) : s[j] # sep
         IN  <<SubSeq(s, 1, i - 1)>> \o Split(SubSeq(s, i + 1, Len(s)), sep)
    ELSE <<s>>

\* splitProtoPort(rawPort): <<proto, port>>
SplitProtoPort(rawPort) ==
    LET parts == Split(rawPort, "/")
        l == Len(parts)
    IN  IF Len(rawPort) = 0 \/ l = 0 \/ Len(parts[1]) = 0 THEN << <<>>, <<>> >>
        ELSE IF l = 1 THEN << <<"t", "c", "p">>, rawPort >>
        ELSE IF Len(parts[2]) = 0 THEN << <<"t", "c", "p">>, parts[1] >>
        ELSE << parts[2], parts[1] >>

\* Port.Port()
PortOf(p) == SplitProtoPort(p)[2]

\* Port.Proto()
ProtoOf(p) == SplitProtoPort(p)[1]

PortBind(name, container, host) == [name |-> name, container |-> container, host |-> host]

\* ports.DebugPortName and ports.BaseDebugPort, constants of the ports
\* library, stand for themselves
DebugPortName == "ports.DebugPortName"
BaseDebugPort == "ports.BaseDebugPort"

\* strconv.Itoa(int(b.Host)): the decimal digits of the host port. The value
\* of ports.BaseDebugPort belongs to the ports library, so its digits are
\* kept as one symbol; the debug binding is the only one that carries it
HostPortText(b) == IF b.name = DebugPortName THEN <<BaseDebugPort>> ELSE Itoa(b.host)

RECURSIVE NamesFromFirst(_, _, _)
\* a loop that keeps the name a key received first
NamesFromFirst(pb, i, names) ==
    IF i > Len(pb) THEN names
    ELSE NamesFromFirst(pb, i + 1,
            names @@ (PortOf(pb[i].container) :> pb[i].name)
                  @@ (HostPortText(pb[i]) :> pb[i].name))

RECURSIVE NamesFrom(_, _, _)
\* for _, b := range pb { names[b.Container.Port()] = b.Name;
\*                        names[strconv.Itoa(int(b.Host))] = b.Name }
NamesFrom(pb, i, names) ==
    IF i > Len(pb) THEN names
    ELSE NamesFrom(pb, i + 1,
            (HostPortText(pb[i]) :> pb[i].name)
               @@ (PortOf(pb[i].container) :> pb[i].name) @@ names)

\* an index in which the first binding carrying a key wins
NamesKeepsFirst(pb) == NamesFromFirst(pb, 1, <<>>)

\* PortBinds.Names()
Names(pb) == NamesFrom(pb, 1, <<>>)

(***************************************************************************)
(* 64-bit integers (int, int64, time.Duration) are their bytes, lowest     *)
(* first, in two's complement; arithmetic wraps as the machine's does      *)
(***************************************************************************)
\* bytes of an int64
Int64Bytes == 8
\* bytes wide enough for the exact product of two int64
WideBytes == 2 * Int64Bytes
\* bytes wide enough for the magnitude of the decimal strings parsed
MagBytes == Int64Bytes + 2

\* the element of a set of one element (binding a value that was computed
\* once, where a definition would be computed again at every use)
Only(S) == CHOOSE x \in S : TRUE

RECURSIVE CarryFrom(_, _, _, _)
CarryFrom(raw, i, c, n) ==
    IF i > n THEN <<>>
    ELSE Only({<<t % 256>> \o CarryFrom(raw, i + 1, t \div 256, n) : t \in {raw[i] + c}})

\* the n bytes of a number given by n terms of any size, the carry out dropped
Carry(raw, n) == CarryFrom(raw, 1, 0, n)

Zero(n) == Carry([k \in 1..n |-> 0], n)

RECURSIVE Conv(_, _, _, _)
\* a[1]*b[k] + a[2]*b[k-1] + ... + a[i]*b[k-i+1]
Conv(a, b, k, i) == IF i = 0 THEN 0 ELSE a[i] * b[k - i + 1] + Conv(a, b, k, i - 1)

\* a sum of two n-byte integers
AddBytes(a, b, n) ==
    Only({Carry([k \in 1..n |-> x[k] + y[k]], n) : x \in {a}, y \in {b}})

\* the product of two n-byte integers, modulo 2^(8n)
MulBytes(a, b, n) ==
    Only({Carry([k \in 1..n |-> Conv(x, y, k, k)], n) : x \in {a}, y \in {b}})

MulSmall(a, m, n) == Only({Carry([k \in 1..n |-> x[k] * m], n) : x \in {a}})

AddSmall(a, d, n) ==
    Only({Carry([k \in 1..n |-> IF k = 1 THEN x[1] + d ELSE x[k]], n) : x \in {a}})

\* two's complement negation
NegBytes(a, n) == Only({AddSmall([k \in 1..n |-> 255 - x[k]], 1, n) : x \in {a}})

\* the low n bytes
Trunc(a, n) == SubSeq(a, 1, n)

\* sign extension of an n-byte integer to m bytes
Extend(a, n, m) ==
    Only({Carry([k \in 1..m |-> IF k <= n THEN x[k] ELSE IF x[n] >= 128 THEN 255 ELSE 0], m)
          : x \in {a}})

RECURSIVE MagFrom(_, _, _)
\* the number written by the decimal digits ds[i..]
MagFrom(ds, i, acc) ==
    IF i > Len(ds) THEN acc
    ELSE Only({MagFrom(ds, i + 1, v)
               : v \in {AddSmall(MulSmall(acc, 10, MagBytes), DigitValue(ds[i]), MagBytes)}})

RECURSIVE StripZeros(_)
StripZeros(ds) == IF Len(ds) > 1 /\ ds[1] = "0" THEN StripZeros(Tail(ds)) ELSE ds

\* strconv.Atoi(s): an optional sign and decimal digits, within int64;
\* [ok, val] with ok false for a syntax or a range error
Atoi(s) ==
    LET signed == Len(s) > 0 /\ s[1] \in {"+", "-"}
        neg == Len(s) > 0 /\ s[1] = "-"
        ds == IF signed THEN Tail(s) ELSE s
        syntax == Len(ds) > 0 /\ \A i \in 1..Len(ds) : IsDigit(ds[i])
        sd == StripZeros(ds)
        mag == MagFrom(sd, 1, Zero(MagBytes))
        min == [k \in 1..MagBytes |-> IF k = Int64Bytes THEN 128 ELSE 0]
        inRange == /\ Len(sd) <= 2 * MagBytes
                   /\ \/ /\ mag[Int64Bytes] < 128
                         /\ \A k \in (Int64Bytes + 1)..MagBytes : mag[k] = 0
                      \/ neg /\ mag = min
    IN  IF ~syntax \/ ~inRange THEN [ok |-> FALSE, val |-> Zero(Int64Bytes)]
        ELSE [ok |-> TRUE,
              val |-> IF neg THEN NegBytes(Trunc(mag, Int64Bytes), Int64Bytes)
                      ELSE Trunc(mag, Int64Bytes)]

\* a time.Duration written in nanoseconds
Duration(ds) == Atoi(ds).val

(***************************************************************************)
(* setupDebug (src/container.go)                                           *)
(***************************************************************************)
\* c.DebugPort: Enabled(), Port() and Command() are its fields
DebugPort(enabled, port, command) == [enabled |-> enabled, port |-> port, command |-> command]

\* PortBind{Name: ports.DebugPortName,
\*          Container: Port(fmt.Sprintf("%d/tcp", c.DebugPort.Port())),
\*          Host: ports.BaseDebugPort}
DebugBind(d) == PortBind(DebugPortName, Itoa(d.port) \o <<"/", "t", "c", "p">>, BaseDebugPort)

\* a wrapper that lacks the "exec" token
DebugCmdWithoutExec(d) ==
    <<"/bin/dlv", "--listen=:ports.BaseDebugPort", "--headless=true", "--api-version=2",
      "--accept-multiclient", d.command>>

\* c.Cmd = []string{"/bin/dlv", fmt.Sprintf("--listen=:%d", ports.BaseDebugPort), ...,
\*                  "exec", c.DebugPort.Command()}
DebugCmd(d) ==
    <<"/bin/dlv", "--listen=:ports.BaseDebugPort", "--headless=true", "--api-version=2",
      "--accept-multiclient", "exec", d.command>>

\* a scaling that adds the factor
ScaledTimeoutAdds(t, f) == AddBytes(t, f, Int64Bytes)

\* c.StartTimeout * time.Duration(factor)
ScaledTimeout(t, f) == MulBytes(t, f, Int64Bytes)

\* c.Ports after setupDebug
DebugPorts(pb, d) == IF d.enabled THEN Append(pb, DebugBind(d)) ELSE pb

\* c.StartTimeout after setupDebug: scaled when the debug port is enabled and
\* the variable holds a string that strconv.Atoi accepts
DebugTimeout(t, d, env) ==
    IF d.enabled /\ env # <<>> /\ Atoi(env).ok THEN ScaledTimeout(t, Atoi(env).val) ELSE t

\* the calls of c.LogStderr("wrong %s value", ...) made by setupDebug
DebugLogs(d, env) == IF d.enabled /\ env # <<>> /\ ~Atoi(env).ok THEN 1 ELSE 0

\* c.Cmd after setupDebug
DebugCommand(c, d) == IF d.enabled THEN DebugCmd(d) ELSE c

(***************************************************************************)
(* Inputs of CreateContainer                                               *)
(***************************************************************************)
NoDebug == DebugPort(FALSE, 0, "")

DebugConfigs == {NoDebug, DebugPort(TRUE, 4000, "/app"), DebugPort(TRUE, 2345, "/srv")}

\* values of DEBUG_START_TIMEOUT_FACTOR: unset, "3", "+2", "0", "-1", "007",
\* "abc", "2x", "-", "1000000000" and "99999999999999999999"
FactorInputs ==
    { <<>>, <<"3">>, <<"+", "2">>, <<"0">>, <<"-", "1">>, <<"0", "0", "7">>,
      <<"a", "b", "c">>, <<"2", "x">>, <<"-">>,
      <<"1">> \o [i \in 1..9 |-> "0"], [i \in 1..20 |-> "9"] }

\* start timeouts: 0, one second and thirty seconds, in nanoseconds
TimeoutInputs ==
    { Duration(<<"0">>), Duration(<<"1">> \o [i \in 1..9 |-> "0"]),
      Duration(<<"3">> \o [i \in 1..10 |-> "0"]) }

CmdInputs == { <<>>, <<"/app", "--verbose">> }

\* container ports "80/tcp", "8080/udp", "80" and ""; host ports 80 and 8080
BindPool ==
    { PortBind(n, c, h) :
        n \in {"http", "admin"},
        c \in { <<"8", "0", "/", "t", "c", "p">>, <<"8", "0", "8", "0", "/", "u", "d", "p">>,
                <<"8", "0">>, <<>> },
        h \in {80, 8080} }

RECURSIVE SeqsUpTo(_, _)
\* the sequences of at most n elements of S
SeqsUpTo(S, n) ==
    IF n = 0 THEN {<<>>}
    ELSE SeqsUpTo(S, n - 1) \cup {Append(q, x) : q \in {q \in SeqsUpTo(S, n - 1) : Len(q) = n - 1}, x \in S}

PortInputs == SeqsUpTo(BindPool, MaxBinds)

\* the bindings of the container of the lifecycle model: "80/tcp" at 8080,
\* "81/tcp" at 8081, ...
PortNamePool == <<"http", "admin", "metrics", "grpc">>

LifePorts ==
    [i \in 1..NumPorts |->
        PortBind(PortNamePool[i], Itoa(79 + i) \o <<"/", "t", "c", "p">>, 8079 + i)]

\* the fields of the controller that CreateContainer configures
ConfFields(pb, d, env, t, c) ==
    /\ cPorts = pb
    /\ dbg = d
    /\ factorEnv = env
    /\ startTimeout = t
    /\ cmd = c
    /\ portnames = <<>>
    /\ errLog = 0
    /\ createRes = "none"
    /\ creates = 0

\* a controller configured without debugging
ConfParked ==
    ConfFields(LifePorts, NoDebug, <<>>, Duration(<<"3">> \o [i \in 1..10 |-> "0"]), <<"/app">>)

(***************************************************************************)
(* The registry of a network (src/unnamed/part_002)                        *)
(***************************************************************************)
\* containers [maxTypeID][]*containers.OrchestratorInfo
NewDockerNetwork ==
    /\ containers = [t \in 0..(maxTypeID - 1) |-> <<>>]
    /\ adds = 0
    /\ lastAdd = [typeID |-> 0, outcome |-> "none"]

\* the type identifiers given to AddContainer; TypeID is a uint8
TypeIDs == {0, 1, maxTypeID - 1, maxTypeID, maxTypeID + 1, 255}

InfoIDs == {"a", "b"}

\* if info.TypeID > uint8(len(nw.containers)) { panic("containers types overflow") }
OverflowCheck(typeID) == typeID > maxTypeID

\* AddContainer: the overflow check, then the append under nw.mu; indexing the
\* array outside 0..39 is a run-time panic of the index expression
AddContainer ==
    /\ adds < MaxAdds
    /\ lastAdd.outcome \in {"none", "added"}
    /\ adds' = adds + 1
    /\ \E typeID \in TypeIDs, id \in InfoIDs :
          IF OverflowCheck(typeID)
          THEN /\ lastAdd' = [typeID |-> typeID, outcome |-> "overflowPanic"]
               /\ containers' = containers
          ELSE IF typeID \notin DOMAIN containers
          THEN /\ lastAdd' = [typeID |-> typeID, outcome |-> "indexPanic"]
               /\ containers' = containers
          ELSE /\ lastAdd' = [typeID |-> typeID, outcome |-> "added"]
               /\ containers' = [containers EXCEPT ![typeID] = Append(@, id)]
    /\ UNCHANGED <<allocVars, lifeVars, confVars, ipVars>>

(***************************************************************************)
(* HostIP, NextIP and isFreeIP of a network (src/unnamed/part_002); the    *)
(* range of its addresses is made by createSubnetRange                     *)
(***************************************************************************)
\* net.IP.String(): "a.b.c.d"
IPText(ip) ==
    Itoa(ip[1]) \o <<".">> \o Itoa(ip[2]) \o <<".">> \o Itoa(ip[3]) \o <<".">> \o Itoa(ip[4])

\* endpoint.IPv4Address as the engine reports it: "a.b.c.d/ones"
EndpointText(ip, ones) == IPText(ip) \o <<"/">> \o Itoa(ones)

\* a test that finds nothing
ContainsNothing(str, substr) == FALSE

\* strings.Contains(str, substr)
Contains(str, substr) ==
    \E i \in 0..(Len(str) - Len(substr)) : SubSeq(str, i + 1, i + Len(substr)) = substr

\* the "" of a scan that found nothing
NoIP == <<>>

\* number of addresses of a network
RangeSize(sn) == Pow2(32 - sn.ones)

\* the i-th address of a network, counted from its network address
RangeAddr(sn, i) ==
    LET n == sn.ip[3] * 256 + sn.ip[4] + i
    IN  IPv4(sn.ip[1], sn.ip[2], n \div 256, n % 256)

\* the filter given to ipnet.NewSubnetRage: lb > 2 && lb < 254
RangeFilter(ip) == ip[4] > LowOctet /\ ip[4] < HighOctet

\* the positions, from position c on, of the addresses passing the filter
RangeRest(sn, c) == {i \in c..(RangeSize(sn) - 1) : RangeFilter(RangeAddr(sn, i))}

\* SubnetRange.NextIP(): the position of the next address passing the
\* filter, or the size of the range when there is none
RangeNext(sn, c) ==
    IF RangeRest(sn, c) = {} THEN RangeSize(sn)
    ELSE CHOOSE i \in RangeRest(sn, c) : \A j \in RangeRest(sn, c) : i <= j

\* the loop of isFreeIP over resource.Containers
IsFreeIP(reported, ones, ip) ==
    \A m \in reported : ~Contains(EndpointText(m, ones), IPText(ip))

\* the networks CheckNetwork binds, and the addresses the engine may report
\* as held by the endpoints of the network
SubnetInputs ==
    {IPNet(IPv4(10, 0, 0, 0), 29), IPNet(IPv4(10, 0, 0, 248), 29), IPNet(IPv4(10, 0, 0, 0), 27)}

MemberPool == {IPv4(10, 0, 0, 3), IPv4(10, 0, 0, 30), IPv4(10, 0, 0, 253)}

NoCheck == [ip |-> NoIP, ok |-> FALSE, reported |-> {}, free |-> FALSE]

\* createSubnetRange(cidr): the range starts at the network address
NewSubnetRange(sn, held) ==
    /\ nwSubnet = sn
    /\ cursor = 0
    /\ members = held
    /\ ipc = "idle"
    /\ ipOp = "none"
    /\ cand = NoIP
    /\ lastCheck = NoCheck
    /\ ipCalls = 0
    /\ ipResult = [op |-> "none", ip |-> NoIP]

\* a network left alone
IPParked == NewSubnetRange(IPNet(IPv4(10, 0, 0, 0), 29), {})

\* HostIP() or NextIP() is called
IPCall ==
    /\ ipc = "idle"
    /\ ipCalls < MaxIPCalls
    /\ ipCalls' = ipCalls + 1
    /\ \E op \in {"HostIP", "NextIP"} : ipOp' = op
    /\ ipc' = "next"
    /\ UNCHANGED <<allocVars, lifeVars, confVars, regVars, nwSubnet, cursor, members, cand,
                   lastCheck, ipResult>>

\* ip := nw.subnet.NextIP(), and the test ip != "" of the loop
SubnetNext ==
    /\ ipc = "next"
    /\ LET i == RangeNext(nwSubnet, cursor)
       IN  IF i = RangeSize(nwSubnet)
           THEN cursor' = i /\ cand' = NoIP /\ ipc' = "return"
           ELSE cursor' = i + 1 /\ cand' = RangeAddr(nwSubnet, i) /\ ipc' = "check"
    /\ UNCHANGED <<allocVars, lifeVars, confVars, regVars, nwSubnet, members, ipOp, lastCheck,
                   ipCalls, ipResult>>

\* !nw.isFreeIP(ip): NetworkInspect fails and the address counts as taken, or
\* the endpoints the engine reports are compared with the address
CheckFree ==
    /\ ipc = "check"
    /\ \E ok \in BOOLEAN :
          LET free == ok /\ IsFreeIP(members, nwSubnet.ones, cand)
          IN  /\ lastCheck' = [ip |-> cand, ok |-> ok,
                               reported |-> IF ok THEN members ELSE {}, free |-> free]
              /\ ipc' = IF free THEN "return" ELSE "next"
    /\ UNCHANGED <<allocVars, lifeVars, confVars, regVars, nwSubnet, cursor, members, ipOp, cand,
                   ipCalls, ipResult>>

\* return ip: the locals of the call are gone
IPReturn ==
    /\ ipc = "return"
    /\ ipResult' = [op |-> ipOp, ip |-> cand]
    /\ ipc' = "idle"
    /\ ipOp' = "none"
    /\ cand' = NoIP
    /\ lastCheck' = NoCheck
    /\ UNCHANGED <<allocVars, lifeVars, confVars, regVars, nwSubnet, cursor, members, ipCalls>>

\* a container joins the network or leaves it: the engine's membership changes
MemberChange ==
    /\ \E m \in MemberPool :
          members' = IF m \in members THEN members \ {m} ELSE members \cup {m}
    /\ UNCHANGED <<allocVars, lifeVars, confVars, regVars, nwSubnet, cursor, ipc, ipOp, cand,
                   lastCheck, ipCalls, ipResult>>

(***************************************************************************)
(* NewBaseContainer: the controller before CreateContainer                 *)
(***************************************************************************)
Main == 0
Stoppers == 1..NumStoppers

\* ContainerStatus{StatusCode, Error}: the exit statuses the engine may report
NoStatus == [code |-> 0 - 1, error |-> FALSE]
ExitStatuses == {[code |-> 0, error |-> FALSE],
                 [code |-> 1, error |-> FALSE],
                 [code |-> 1, error |-> TRUE]}
\* an engine whose containers end with status code 1
FailingEngine == {[code |-> 1, error |-> FALSE]}
StopCallers == {Main} \cup Stoppers

\* a nil *ContainerInfo
NilInfo == [nil |-> TRUE, PortBinds |-> <<>>]

NewBaseContainer ==
    /\ containerID = <<>>
    /\ stopped = FALSE
    /\ cmutex = {}
    /\ spc = [t \in StopCallers |-> "idle"]
    /\ sres = [t \in StopCallers |-> "none"]
    /\ scalls = [t \in StopCallers |-> 0]
    /\ engineStops = <<>>
    /\ stopLog = <<>>
    /\ everConcurrent = FALSE
    /\ mpc = "new"
    /\ result = "none"
    /\ outcome = "none"
    /\ contested = FALSE
    /\ readyCloses = 0
    /\ deadline = "unset"
    /\ probe = "unstarted"
    /\ proc = "none"
    /\ waitPc = "unstarted"
    /\ exitVal = "none"
    /\ sig = "none"
    /\ exitStatus = NoStatus
    /\ logCtx = "unset"
    /\ hostWrites = 0
    /\ contWrites = 0
    /\ registered = 0
    /\ startInfo = NilInfo
    /\ hostLeft = {}
    /\ hostAddress = <<>>

(***************************************************************************)
(* The allocator as a state machine                                        *)
(***************************************************************************)
AllocInit ==
    /\ IPParked
    /\ engineStatuses = FailingEngine
    /\ NewBaseContainer
    /\ client = "contract"
    /\ ConfParked
    /\ NewDockerNetwork
    /\ background = FALSE
    /\ readySupplied = FALSE
    /\ reservedCfg \in 1..Len(ReservedConfigs)
    /\ used = NewNetworkAllocator(ReservedConfigs[reservedCfg])
    /\ mu = 0
    /\ apc = [p \in AllocCallers |-> "idle"]
    /\ pick = [p \in AllocCallers |-> NilNet]
    /\ listed = [p \in AllocCallers |-> 1]
    /\ returned = <<>>
    /\ calls = 0
    /\ overlapped = [p \in AllocCallers |-> FALSE]
    /\ removed = {}

\* a caller enters GetFreeSubnet
AllocCall(p) ==
    /\ apc[p] = "idle"
    /\ calls < MaxCalls
    /\ calls' = calls + 1
    /\ apc' = [apc EXCEPT ![p] = "lock"]
    /\ overlapped' = [q \in AllocCallers |->
            IF q = p THEN \E r \in AllocCallers : apc[r] # "idle"
            ELSE overlapped[q] \/ apc[q] # "idle"]
    /\ UNCHANGED <<used, mu, pick, listed, returned, reservedCfg, removed, lifeVars, restVars>>

\* na.mu.Lock()
AllocLock(p) ==
    /\ apc[p] = "lock"
    /\ MutexFree
    /\ mu' = p
    /\ apc' = [apc EXCEPT ![p] = "refresh"]
    /\ UNCHANGED <<used, pick, listed, returned, reservedCfg, calls, overlapped, removed, lifeVars, restVars>>

\* na.getUsedNetworks(ctx): the list is folded into the table
AllocRefresh(p) ==
    /\ apc[p] = "refresh"
    /\ \E li \in 1..Len(EngineLists) :
          /\ listed' = [listed EXCEPT ![p] = li]
          /\ used' = GetUsedNetworks(used, EngineLists[li])
    /\ apc' = [apc EXCEPT ![p] = "scan"]
    /\ UNCHANGED <<mu, pick, returned, reservedCfg, calls, overlapped, removed, lifeVars, restVars>>

\* a failing refresh that empties the table
RefreshFailureClears(u) == [k \in {} |-> TRUE]

\* getUsedNetworks returns at the NetworkList error, before anything is
\* folded into na.used
RefreshFailureKeeps(u) == u

\* na.getUsedNetworks(ctx) fails: GetFreeSubnet returns (nil, err)
AllocRefreshFail(p) ==
    /\ apc[p] = "refresh"
    /\ apc' = [apc EXCEPT ![p] = "failed"]
    /\ used' = RefreshFailureKeeps(used)
    /\ UNCHANGED <<mu, pick, listed, returned, reservedCfg, calls, overlapped, removed, lifeVars, restVars>>

\* the two loops up to the test of line 80
AllocScan(p) ==
    /\ apc[p] = "scan"
    /\ pick' = [pick EXCEPT ![p] = ScanZones(used, SupernetOctet2)]
    /\ apc' = [apc EXCEPT ![p] = "reserve"]
    /\ UNCHANGED <<used, mu, listed, returned, reservedCfg, calls, overlapped, removed, lifeVars, restVars>>

\* line 81, or falling out of the loops with nothing found
AllocReserve(p) ==
    /\ apc[p] = "reserve"
    /\ used' = IF pick[p] # NilNet THEN Reserve(used, pick[p]) ELSE used
    /\ apc' = [apc EXCEPT ![p] = "return"]
    /\ UNCHANGED <<mu, pick, listed, returned, reservedCfg, calls, overlapped, removed, lifeVars, restVars>>

\* the deferred na.mu.Unlock() and the return
AllocReturn(p) ==
    /\ apc[p] \in {"return", "failed"}
    /\ mu' = 0
    /\ returned' = Append(returned,
            [err |-> apc[p] = "failed", subnet |-> pick[p],
             concurrent |-> overlapped[p]])
    /\ apc' = [apc EXCEPT ![p] = "idle"]
    /\ pick' = [pick EXCEPT ![p] = NilNet]
    /\ listed' = [listed EXCEPT ![p] = 1]
    /\ overlapped' = [overlapped EXCEPT ![p] = FALSE]
    /\ UNCHANGED <<used, reservedCfg, calls, removed, lifeVars, restVars>>

\* a removal that gives the range back to the allocator
TableReleases(u, subnet) == [k \in DOMAIN u \ {String(subnet)} |-> u[k]]

\* cli.client.NetworkRemove(ctx, id): the call goes to the engine only, the
\* allocator and its table are not involved
TableAfterRemoval(u, subnet) == u

\* RemoveNetwork(id) for the network created on a subnet the allocator returned
RemoveNetwork(i) ==
    /\ i \in 1..Len(returned)
    /\ ~returned[i].err
    /\ returned[i].subnet # NilNet
    /\ \A r \in removed : r[1] # i
    /\ Cardinality(removed) < MaxRemovals
    /\ removed' = removed \cup {<<i, Len(returned)>>}
    /\ used' = TableAfterRemoval(used, returned[i].subnet)
    /\ UNCHANGED <<mu, apc, pick, listed, returned, reservedCfg, calls, overlapped, lifeVars, restVars>>

AllocNext ==
    \/ \E p \in AllocCallers :
          \/ AllocCall(p)
          \/ AllocLock(p)
          \/ AllocRefresh(p)
          \/ AllocRefreshFail(p)
          \/ AllocScan(p)
          \/ AllocReserve(p)
          \/ AllocReturn(p)
    \/ \E i \in 1..MaxCalls : RemoveNetwork(i)

AllocSpec == AllocInit /\ [][AllocNext]_vars

(***************************************************************************)
(* Properties of the allocator                                             *)
(***************************************************************************)
\* the successful results among the calls returned so far
Successful == {i \in 1..Len(returned) : ~returned[i].err /\ returned[i].subnet # NilNet}

\* the reserved ranges given to the constructor, as networks
ReservedNets ==
    {ParseCIDR(ReservedConfigs[reservedCfg][i][1], ReservedConfigs[reservedCfg][i][2]) :
        i \in 1..Len(ReservedConfigs[reservedCfg])}

\* the supernet 172.16.0.0/12 and the second octets of the /16 zones inside it
Supernet == IPNet(IPv4(SupernetOctet1, SupernetOctet2, 0, 0), SupernetOnes)
SupernetZones == {b \in 0..255 : Overlaps(Zone16(b), Supernet)}

\* The candidates of the scan as the specification describes it: a /24 with
\* third octet 0..254 that is no key of the table, in a zone of the supernet
\* that is not recorded as a /16.
\* zone b of the supernet is recorded as a /16 in the table
ZoneRecorded(u, b) == String(Zone16(b)) \in DOMAIN u /\ u[String(Zone16(b))] = 16

\* the /24 with second octet b and third octet c is a candidate of the table
IsCandidate(u, b, c) ==
    /\ b \in SupernetZones
    /\ c \in 0..254
    /\ ~ZoneRecorded(u, b)
    /\ String(Sub24(b, c)) \notin DOMAIN u

\* no candidate comes before the /24 with octets b, c in scan order
NoneBefore(u, b, c) ==
    /\ \A c2 \in 0..254 : c2 < c => ~IsCandidate(u, b, c2)
    /\ \A b2 \in SupernetZones : b2 < b =>
          (ZoneRecorded(u, b2) \/ \A c2 \in 0..254 : String(Sub24(b2, c2)) \in DOMAIN u)

\* C1: the subnets returned by the successful GetFreeSubnet calls of one
\* allocator are pairwise non-overlapping.
C1_ReturnedPairwiseDisjoint ==
    \A i, j \in Successful :
        i # j => ~Overlaps(returned[i].subnet, returned[j].subnet)

C1_Witness == Cardinality(Successful) >= 2

\* C2: no subnet returned by GetFreeSubnet intersects a reserved range given
\* at construction, whatever the prefix length of the reserved range.
C2_ReturnedAvoidsReserved ==
    \A i \in Successful : \A r \in ReservedNets : ~Overlaps(returned[i].subnet, r)

\* C3: calls that run concurrently never return the same subnet, because at
\* most one caller at a time is between taking the lock and returning.
C3_ConcurrentCallsDistinct ==
    /\ \A p, q \in AllocCallers :
          (p # q /\ apc[p] \in {"refresh", "scan", "reserve", "return", "failed"})
              => apc[q] \in {"idle", "lock"}
    /\ \A i, j \in Successful :
          (i # j /\ returned[i].concurrent /\ returned[j].concurrent)
              => returned[i].subnet # returned[j].subnet

C3_Witness ==
    \E i, j \in Successful : i # j /\ returned[i].concurrent /\ returned[j].concurrent

C5_ExhaustedOnlyWhenNoCandidate ==
    \A p \in AllocCallers :
        (apc[p] = "reserve" /\ pick[p] = NilNet) =>
            \A b \in SupernetZones : \A c \in 0..254 : ~IsCandidate(used, b, c)

\* C37: when listing the engine's networks fails, the call returns an error
\* and no subnet, the used table is what it was when the call took the lock
\* (nothing is reserved), and the lock is released at the return.
C37_ListFailureLeavesTable ==
    [][\A p \in AllocCallers :
          /\ (apc[p] \in {"refresh", "failed"} /\ apc'[p] \in {"failed", "idle"}) =>
                used' = used
          /\ apc'[p] = "failed" => mu' = p /\ pick'[p] = NilNet
          /\ (apc[p] = "failed" /\ apc'[p] = "idle") =>
                /\ mu' = 0
                /\ returned' = Append(returned, returned'[Len(returned')])
                /\ returned'[Len(returned')].err
                /\ returned'[Len(returned')].subnet = NilNet]_vars

\* a call failed at the listing after an earlier call had reserved a subnet
C37_Witness ==
    /\ Len(returned) >= 2
    /\ returned[Len(returned)].err
    /\ \E i \in Successful : i < Len(returned)
    /\ mu = 0
    /\ \A i \in Successful : String(returned[i].subnet) \in DOMAIN used

\* C34: the used table only grows: no step of a GetFreeSubnet call and no
\* network removal takes a key out of it, every subnet the allocator returned
\* stays a key of the table, and no subnet is returned twice by one
\* allocator, also after its network was removed from the engine.
C34_TableOnlyGrows ==
    [][/\ DOMAIN used \subseteq DOMAIN used'
       /\ \A i \in 1..Len(returned') :
             (~returned'[i].err /\ returned'[i].subnet # NilNet) =>
                /\ String(returned'[i].subnet) \in DOMAIN used'
                /\ \A j \in 1..Len(returned') :
                      (j # i /\ ~returned'[j].err) => returned'[j].subnet # returned'[i].subnet]_vars

\* the network of a result was removed, and a call that took the lock after
\* the removal has returned a subnet
C34_Witness ==
    \E r \in removed : \E j \in Successful :
        /\ j >= r[2] + 2
        /\ String(returned[r[1]].subnet) \in DOMAIN used

\* C29: the subnet a GetFreeSubnet call is about to return overlaps none of
\* the networks the engine listed during that call, whatever the prefix
\* length or the alignment of the listed network.
C29_ReturnedAvoidsListed ==
    \A p \in AllocCallers :
        (apc[p] = "return" /\ pick[p] # NilNet) =>
            \A i \in 1..Len(EngineLists[listed[p]]) :
                ~Overlaps(pick[p], EngineLists[listed[p]][i])

(***************************************************************************)
(* Container lifecycle controller (src/container.go)                       *)
(***************************************************************************)
\* the allocator, constructed and left alone
AllocParked ==
    /\ reservedCfg = 1
    /\ used = NewNetworkAllocator(ReservedConfigs[reservedCfg])
    /\ mu = 0
    /\ apc = [p \in AllocCallers |-> "idle"]
    /\ pick = [p \in AllocCallers |-> NilNet]
    /\ listed = [p \in AllocCallers |-> 1]
    /\ returned = <<>>
    /\ calls = 0
    /\ overlapped = [p \in AllocCallers |-> FALSE]
    /\ removed = {}

\* the ids the engine's ContainerCreate may return: one shorter than the
\* truncation length, one longer
ShortID == <<1, 2, 3>>
LongID == [i \in 1..(TruncatedIDLen + 2) |-> i]
EngineIDs == {ShortID, LongID}

LifeInit ==
    /\ IPParked
    /\ engineStatuses = FailingEngine
    /\ AllocParked
    /\ NewBaseContainer
    /\ client = "contract"
    /\ ConfParked
    /\ NewDockerNetwork
    /\ background \in BOOLEAN
    /\ readySupplied \in BOOLEAN

(***************************************************************************)
(* Stop()                                                                  *)
(***************************************************************************)
\* a lock that never blocks
StopMutexIgnored == TRUE

\* c.mutex.Lock() succeeds only when nobody holds the mutex
StopMutexFree == cmutex = {}

\* a Stop() that forgets to set the flag
FlagLeftClear == FALSE

\* c.stopped = true
FlagAfterStop == TRUE

\* another call is between entering Stop() and returning from it
StopOpen(t) == \E u \in StopCallers : u # t /\ spc[u] \notin {"idle", "done"}

RECURSIVE SumCalls(_)
\* number of Stop() calls begun by the callers 1..n
SumCalls(n) == IF n = 0 THEN 0 ELSE scalls[n] + SumCalls(n - 1)

OutsideCalls == SumCalls(NumStoppers)

\* entering Stop()
EnterStop(t) ==
    /\ spc[t] \in {"idle", "done"}
    /\ spc' = [spc EXCEPT ![t] = "lock"]
    /\ sres' = [sres EXCEPT ![t] = "none"]
    /\ scalls' = [scalls EXCEPT ![t] = @ + 1]
    /\ everConcurrent' = (everConcurrent \/ StopOpen(t))
    /\ UNCHANGED <<stopped, cmutex, engineStops, stopLog>>

\* an outside caller calls Stop()
StopCall(t) ==
    /\ t \in Stoppers
    /\ OutsideCalls < MaxStopCalls
    /\ EnterStop(t)
    /\ UNCHANGED <<allocVars, restVars, startVars>>

\* c.mutex.Lock()
StopLock(t) ==
    /\ spc[t] = "lock"
    /\ StopMutexFree
    /\ cmutex' = {t}
    /\ spc' = [spc EXCEPT ![t] = "check"]
    /\ UNCHANGED <<allocVars, restVars, startVars, scalls, stopped, sres, engineStops, stopLog, everConcurrent>>

\* if c.stopped
StopCheck(t) ==
    /\ spc[t] = "check"
    /\ spc' = [spc EXCEPT ![t] = IF stopped THEN "already" ELSE "set"]
    /\ UNCHANGED <<allocVars, restVars, startVars, scalls, stopped, cmutex, sres, engineStops, stopLog,
                   everConcurrent>>

\* c.mutex.Unlock(); return ErrContainerAlreadyStoped
StopAlready(t) ==
    /\ spc[t] = "already"
    /\ cmutex' = cmutex \ {t}
    /\ sres' = [sres EXCEPT ![t] = "AlreadyStopped"]
    /\ stopLog' = Append(stopLog, [by |-> t, res |-> "AlreadyStopped"])
    /\ spc' = [spc EXCEPT ![t] = "done"]
    /\ UNCHANGED <<allocVars, restVars, startVars, scalls, stopped, engineStops, everConcurrent>>

\* c.stopped = true
StopSet(t) ==
    /\ spc[t] = "set"
    /\ stopped' = IF FlagAfterStop THEN TRUE ELSE stopped
    /\ spc' = [spc EXCEPT ![t] = "unlock"]
    /\ UNCHANGED <<allocVars, restVars, startVars, scalls, cmutex, sres, engineStops, stopLog, everConcurrent>>

\* a Stop() that keeps the mutex while it calls the engine (a deferred unlock)
HeldAcrossEngine(held, t) == held

\* c.mutex.Unlock() before "return c.client.ContainerStop(...)"
UnlockedBeforeEngine(held, t) == held \ {t}

\* c.mutex.Unlock()
StopUnlock(t) ==
    /\ spc[t] = "unlock"
    /\ cmutex' = UnlockedBeforeEngine(cmutex, t)
    /\ spc' = [spc EXCEPT ![t] = "engine"]
    /\ UNCHANGED <<allocVars, restVars, startVars, scalls, stopped, sres, engineStops, stopLog, everConcurrent>>

\* a Stop() that clears the flag again when the engine stop has failed
FlagClearedOnFailure(res, flag) == IF res = "engineErr" THEN FALSE ELSE flag

\* the result of the engine goes to the caller, the flag is left as it is
FlagAfterEngine(res, flag) == flag

\* return c.client.ContainerStop(c.Ctx, c.containerID, time.Duration(0))
StopEngine(t) ==
    /\ spc[t] = "engine"
    /\ \E res \in {"nil", "engineErr"} :
          /\ engineStops' = Append(engineStops,
                [by |-> t, id |-> containerID, grace |-> StopGrace, res |-> res])
          /\ sres' = [sres EXCEPT ![t] = res]
          /\ stopLog' = Append(stopLog, [by |-> t, res |-> res])
          /\ stopped' = FlagAfterEngine(res, stopped)
    /\ spc' = [spc EXCEPT ![t] = "done"]
    /\ UNCHANGED <<allocVars, restVars, startVars, scalls, cmutex, everConcurrent>>

(***************************************************************************)
(* CreateContainer and StartContainer                                      *)
(***************************************************************************)
\* the startup context is done: its deadline passed or the deferred cancel ran
CtxDone == deadline = "fired" \/ mpc \in {"returned", "panicked"}

\* an exit case of the startup select that also stops the container
ExitBranchStopsToo == TRUE

\* case <-containerExit: return ErrContainerExitedBeforeReady, without Stop()
ExitBranchStops == FALSE

\* a close that is skipped
ReadyClosesNever(supplied) == 0

\* if ready != nil { close(ready) }
ReadyCloses(supplied) == IF supplied THEN 1 ELSE 0

\* a test of the background flag that always takes the early return
ReturnsAfterReadyAlways(bg) == TRUE

\* if !c.Background { for { select ... } }; return nil
ReturnsAfterReady(bg) == bg

\* a cancelLogs() called before the final "return nil" only, not deferred
CancelledAtEndOnly(pcNext, res) ==
    IF pcNext = "returned" /\ res = "nil" /\ logCtx = "live" THEN "cancelled" ELSE logCtx

\* defer cancelLogs(): runs when StartContainer returns or panics
DeferredCancel(pcNext, res) ==
    IF pcNext \in {"returned", "panicked"} /\ logCtx = "live" THEN "cancelled" ELSE logCtx

\* the readiness signal (readyCh of the probe) has been closed
ProbeResolved == probe \in {"resolved", "resolvedLate"}

\* wait(): case status := <-waitCh ... exitCh <- nil, whatever the status is
WaitStatusValue(status) == "nil"

\* what c.client.ContainerCreate may return: an id and no error, or the empty
\* id and an error
CreateReplies ==
    {[id |-> id, err |-> FALSE] : id \in EngineIDs} \cup {[id |-> <<>>, err |-> TRUE]}

\* a create that returns before recording the id
CreatedIDForgotten(old, reply) == old

\* if err != nil { return errors.Wrap(err, "create container") }; c.containerID = id
CreatedID(old, reply) == IF reply.err THEN old ELSE reply.id

\* c.portnames = c.Ports.Names(); c.setupDebug(); c.client.ContainerCreate:
\* the id is recorded on success only
CreateCall ==
    /\ creates' = creates + 1
    /\ portnames' = Names(cPorts)
    /\ cPorts' = DebugPorts(cPorts, dbg)
    /\ startTimeout' = DebugTimeout(startTimeout, dbg, factorEnv)
    /\ errLog' = errLog + DebugLogs(dbg, factorEnv)
    /\ cmd' = DebugCommand(cmd, dbg)
    /\ \E reply \in CreateReplies :
          /\ containerID' = CreatedID(containerID, reply)
          /\ createRes' = IF reply.err THEN "createErr" ELSE "nil"
    /\ mpc' = "created"
    /\ UNCHANGED <<allocVars, regVars, ipVars, dbg, factorEnv, stopVars, result, outcome, contested,
                   background, readySupplied, readyCloses, deadline, probe, proc, waitPc,
                   exitVal, sig, exitStatus, logCtx, setupVars, engineStatuses, infoVars>>

\* the first CreateContainer call on a controller
CreateContainer == mpc = "new" /\ CreateCall

\* a further CreateContainer call on a controller that was not started yet
CreateAgain == mpc = "created" /\ creates < MaxCreates /\ CreateCall

\* a start whose failure is logged and otherwise ignored
StartFailureIgnored == "hostDir"

\* if err != nil { return errors.Wrapf(err, "start container") }
StartFailureReturns == "returned"

\* c.hostIP, which NewBaseContainer took from nw.HostIP(): 172.16.0.1
ControllerHostIP == IPText(IPv4(SupernetOctet1, SupernetOctet2, 0, 1))

RECURSIVE PortMapFrom(_, _, _)
\* for i := 0; i < len(c.Ports); i++ { pm[c.Ports[i].Container] =
\*     []PortBinding{{HostIP: c.hostIP, HostPort: strconv.Itoa(int(c.Ports[i].Host))}} }
PortMapFrom(pb, i, pm) ==
    IF i > Len(pb) THEN pm
    ELSE PortMapFrom(pb, i + 1,
            (pb[i].container :> <<[HostIP |-> ControllerHostIP, HostPort |-> HostPortText(pb[i])]>>)
               @@ pm)

\* c.PortMap(), which makeContainerConfig hands to the engine as
\* HostConfig.PortBindings and ContainerInspect reports back
PortMap(pb) == PortMapFrom(pb, 1, <<>>)

\* info := &containers.ContainerInfo{..., PortBinds: ...}: the bindings of
\* cont.HostConfig.PortBindings, copied
InfoOf(pb) == [nil |-> FALSE, PortBinds |-> PortMap(pb)]

\* what ContainerStart gives back: the info, the error, whether the call
\* panicked and whether the engine started the container
StartReply(info, err, panic, started) ==
    [info |-> info, err |-> err, panic |-> panic, started |-> started]

\* what the engine may do during the adapter's ContainerStart: fail the
\* start, fail the listing, list no container of the name, fail the
\* inspection, or answer all three; an empty id names no container
EngineStartBehaviours(id) ==
    IF id = <<>> THEN {"startFails"}
    ELSE {"startFails", "listFails", "absent", "inspectFails", "found"}

\* dockerClient.ContainerStart(ctx, id, name): id[:12] is evaluated when the
\* engine's start fails; with the list empty the function falls through to
\* return nil, nil
DockerContainerStart(id, pb, e) ==
    CASE e = "startFails" ->
            IF Len(id) < TruncatedIDLen
            THEN StartReply(NilInfo, "nil", TRUE, FALSE)
            ELSE StartReply(NilInfo, "startErr", FALSE, FALSE)
      [] e = "listFails" -> StartReply(NilInfo, "searchErr", FALSE, TRUE)
      [] e = "absent" -> StartReply(NilInfo, "nil", FALSE, TRUE)
      [] e = "inspectFails" -> StartReply(NilInfo, "infoErr", FALSE, TRUE)
      [] e = "found" -> StartReply(InfoOf(pb), "nil", FALSE, TRUE)

\* ContainerStart(ctx, id, name) (*ContainerInfo, error) of the Client
\* interface: the info of the started container, or an error
ContractContainerStart(id, pb) ==
    {StartReply(InfoOf(pb), "nil", FALSE, TRUE), StartReply(NilInfo, "startErr", FALSE, FALSE)}

\* the replies c.client.ContainerStart may give
ContainerStartReplies(cl, id, pb) ==
    IF cl = "docker"
    THEN {DockerContainerStart(id, pb, e) : e \in EngineStartBehaviours(id)}
    ELSE ContractContainerStart(id, pb)

\* info, err := c.client.ContainerStart(...): on failure StartContainer
\* returns the wrapped error, otherwise it goes on to range over info.PortBinds
StartEngine ==
    /\ mpc = "created"
    /\ \E r \in ContainerStartReplies(client, containerID, cPorts) :
          /\ startInfo' = r.info
          /\ hostLeft' = DOMAIN r.info.PortBinds
          /\ proc' = IF r.started THEN "running" ELSE proc
          /\ mpc' = CASE r.panic -> "panicked"
                      [] ~r.panic /\ r.err # "nil" -> StartFailureReturns
                      [] OTHER -> "hostDir"
          /\ result' = IF ~r.panic /\ r.err # "nil" THEN "startErr" ELSE result
    /\ UNCHANGED <<allocVars, restVars, stopVars, containerID, outcome, contested, background, readySupplied,
                   readyCloses, deadline, probe, waitPc, exitVal, sig, exitStatus, logCtx, setupVars,
                   engineStatuses, client, hostAddress>>

\* a setup that registers the instance before the container-side directory
\* is filled
SetupNextRegistersEarly(pc) ==
    CASE pc = "hostDir" -> "register"
      [] pc = "register" -> "containerDir"
      [] pc = "containerDir" -> "logs"
      [] pc = "logs" -> "setup"

\* the order of the statements between ContainerStart and the select
SetupNext(pc) ==
    CASE pc = "hostDir" -> "containerDir"
      [] pc = "containerDir" -> "logs"
      [] pc = "logs" -> "register"
      [] pc = "register" -> "setup"

\* c.portnames[k]: the name under the key, "" when the index has no such key
NameOf(names, k) == IF k \in DOMAIN names THEN names[k] ELSE ""

\* net.JoinHostPort(host, port) for a host without a colon
JoinHostPort(host, port) == host \o <<":">> \o port

\* if len(bind) > 0 { b := bind[0]
\*     c.hostAddress[c.portnames[b.HostPort]] = net.JoinHostPort(c.hostIP, b.HostPort) }
HostEndpoint(addrs, names, bind) ==
    IF Len(bind) > 0
    THEN (NameOf(names, bind[1].HostPort) :> JoinHostPort(ControllerHostIP, bind[1].HostPort)) @@ addrs
    ELSE addrs

\* for _, bind := range info.PortBinds: the keys are visited in no fixed
\* order, one write to c.hostAddress per binding; a nil info is dereferenced
PopulateHost ==
    /\ mpc = "hostDir"
    /\ IF startInfo.nil
       THEN /\ mpc' = "panicked"
            /\ UNCHANGED <<hostWrites, hostLeft, hostAddress>>
       ELSE IF hostLeft # {}
       THEN /\ \E port \in hostLeft :
                  /\ hostLeft' = hostLeft \ {port}
                  /\ hostAddress' = HostEndpoint(hostAddress, portnames, startInfo.PortBinds[port])
                  /\ hostWrites' = hostWrites + (IF Len(startInfo.PortBinds[port]) > 0 THEN 1 ELSE 0)
            /\ mpc' = mpc
       ELSE /\ mpc' = SetupNext(mpc)
            /\ UNCHANGED <<hostWrites, hostLeft, hostAddress>>
    /\ UNCHANGED <<allocVars, restVars, stopVars, containerID, result, outcome, contested, background,
                   readySupplied, readyCloses, deadline, probe, proc, waitPc, exitVal, sig,
                   exitStatus, logCtx, contWrites, registered, engineStatuses, client, startInfo>>

\* for _, p := range c.Ports: one write to c.containerAddress per binding
PopulateContainer ==
    /\ mpc = "containerDir"
    /\ IF contWrites < Len(cPorts)
       THEN contWrites' = contWrites + 1 /\ mpc' = mpc
       ELSE contWrites' = contWrites /\ mpc' = SetupNext(mpc)
    /\ UNCHANGED <<allocVars, restVars, stopVars, containerID, result, outcome, contested, background,
                   readySupplied, readyCloses, deadline, probe, proc, waitPc, exitVal, sig,
                   exitStatus, logCtx, hostWrites, registered, engineStatuses, infoVars>>

\* logContext, cancelLogs := context.WithCancel(...); defer cancelLogs(); the
\* log-streaming task is started with logContext
StartLogs ==
    /\ mpc = "logs"
    /\ logCtx' = "live"
    /\ mpc' = SetupNext(mpc)
    /\ UNCHANGED <<allocVars, restVars, stopVars, containerID, result, outcome, contested, background,
                   readySupplied, readyCloses, deadline, probe, proc, waitPc, exitVal, sig,
                   exitStatus, setupVars, engineStatuses, infoVars>>

\* c.network.AddContainer(&OrchestratorInfo{...}) with both directories
Register ==
    /\ mpc = "register"
    /\ registered' = registered + 1
    /\ mpc' = SetupNext(mpc)
    /\ UNCHANGED <<allocVars, restVars, stopVars, containerID, result, outcome, contested, background,
                   readySupplied, readyCloses, deadline, probe, proc, waitPc, exitVal, sig,
                   exitStatus, logCtx, hostWrites, contWrites, engineStatuses, infoVars>>

\* c.wait(), context.WithTimeout and the evaluation of c.Ready(ctx) on entering
\* the select
Setup ==
    /\ mpc = "setup"
    /\ waitPc' = "waiting"
    /\ deadline' = "armed"
    /\ probe' = "pending"
    /\ mpc' = "race"
    /\ UNCHANGED <<allocVars, restVars, stopVars, containerID, result, outcome, contested, background,
                   readySupplied, readyCloses, proc, exitVal, sig, exitStatus, logCtx, setupVars, engineStatuses, infoVars>>

\* a startup context made by context.WithCancel: it has no deadline
TimerNeverRuns(d) == FALSE

\* context.WithTimeout(context.Background(), c.StartTimeout): the timer of the
\* context runs from the moment the context is made
TimerRuns(d) == d = "armed"

\* the start timeout elapses (nobody reads the timer once the select is left)
DeadlineFires ==
    /\ TimerRuns(deadline)
    /\ mpc = "race"
    /\ deadline' = "fired"
    /\ UNCHANGED <<allocVars, restVars, stopVars, containerID, mpc, result, outcome, contested, background,
                   readySupplied, readyCloses, probe, proc, waitPc, exitVal, sig, exitStatus, logCtx, setupVars, engineStatuses, infoVars>>

\* the select of ready(): case <-time.After(time.Second * 5) closes readyCh
\* once the delay has elapsed (also when ctx is done as well: the select picks
\* either case), case <-ctx.Done() returns without closing it
ProbeStep ==
    /\ probe = "pending"
    /\ \/ probe' = IF CtxDone THEN "resolvedLate" ELSE "resolved"
       \/ CtxDone /\ probe' = "aborted"
    /\ UNCHANGED <<allocVars, restVars, stopVars, containerID, mpc, result, outcome, contested, background,
                   readySupplied, readyCloses, deadline, proc, waitPc, exitVal, sig, exitStatus, logCtx, setupVars, engineStatuses, infoVars>>

\* the container process ends
ProcExits ==
    /\ proc = "running"
    /\ proc' = "exited"
    /\ UNCHANGED <<allocVars, restVars, stopVars, containerID, mpc, result, outcome, contested, background,
                   readySupplied, readyCloses, deadline, probe, waitPc, exitVal, sig, exitStatus, logCtx, setupVars, engineStatuses, infoVars>>

\* wait(): case err := <-errCh, the wrapped error is about to be sent
WaitError ==
    /\ waitPc = "waiting"
    /\ waitPc' = "sending"
    /\ exitVal' = "exitErr"
    /\ UNCHANGED <<allocVars, restVars, stopVars, containerID, mpc, result, outcome, contested, background,
                   readySupplied, readyCloses, deadline, probe, proc, sig, exitStatus, logCtx, setupVars, engineStatuses, infoVars>>

\* wait(): case status := <-waitCh, nil is about to be sent
WaitStatus ==
    /\ waitPc = "waiting"
    /\ proc = "exited"
    /\ waitPc' = "sending"
    /\ \E status \in engineStatuses :
          /\ exitStatus' = status
          /\ exitVal' = WaitStatusValue(status)
    /\ UNCHANGED <<allocVars, restVars, stopVars, containerID, mpc, result, outcome, contested, background,
                   readySupplied, readyCloses, deadline, probe, proc, sig, logCtx, setupVars, engineStatuses, infoVars>>

\* a stop signal is put on sigCh (only the run loop receives from sigCh, so a
\* signal sent earlier is seen there and nowhere else)
SendSignal ==
    /\ sig = "none"
    /\ mpc = "run"
    /\ sig' = "pending"
    /\ UNCHANGED <<allocVars, restVars, stopVars, containerID, mpc, result, outcome, contested, background,
                   readySupplied, readyCloses, deadline, probe, proc, waitPc,
                   exitVal, exitStatus, logCtx, setupVars, engineStatuses, infoVars>>

\* select: case <-ctx.Done()
RaceDeadline ==
    /\ mpc = "race"
    /\ deadline = "fired"
    /\ outcome' = "deadline"
    /\ contested' = (ProbeResolved \/ waitPc = "sending" \/ proc = "exited")
    /\ mpc' = "timeoutStop"
    /\ UNCHANGED <<allocVars, restVars, stopVars, containerID, result, background, readySupplied,
                   readyCloses, deadline, probe, proc, waitPc, exitVal, sig, exitStatus, logCtx, setupVars, engineStatuses, infoVars>>

\* select: case <-containerExit
RaceExit ==
    /\ mpc = "race"
    /\ waitPc = "sending"
    /\ waitPc' = "done"
    /\ outcome' = "exit"
    /\ contested' = (deadline = "fired" \/ ProbeResolved)
    /\ IF ExitBranchStops
       THEN mpc' = "exitStop" /\ result' = result
       ELSE mpc' = "returned" /\ result' = "ExitedBeforeReady"
    /\ logCtx' = DeferredCancel(mpc', result')
    /\ UNCHANGED <<allocVars, restVars, stopVars, containerID, background, readySupplied,
                   readyCloses, deadline, probe, proc, exitVal, sig, exitStatus, setupVars, engineStatuses, infoVars>>

\* select: case <-c.Ready(ctx)
RaceReady ==
    /\ mpc = "race"
    /\ ProbeResolved
    /\ outcome' = "ready"
    /\ contested' = (deadline = "fired" \/ waitPc = "sending" \/ proc = "exited")
    /\ mpc' = "closeReady"
    /\ UNCHANGED <<allocVars, restVars, stopVars, containerID, result, background, readySupplied,
                   readyCloses, deadline, probe, proc, waitPc, exitVal, sig, exitStatus, logCtx, setupVars, engineStatuses, infoVars>>

\* if ready != nil { close(ready) }; if c.Background, return nil
CloseReady ==
    /\ mpc = "closeReady"
    /\ readyCloses' = readyCloses + ReadyCloses(readySupplied)
    /\ IF ReturnsAfterReady(background)
       THEN mpc' = "returned" /\ result' = "nil"
       ELSE mpc' = "run" /\ result' = result
    /\ logCtx' = DeferredCancel(mpc', result')
    /\ UNCHANGED <<allocVars, restVars, stopVars, containerID, outcome, contested, background, readySupplied,
                   deadline, probe, proc, waitPc, exitVal, sig, exitStatus, setupVars, engineStatuses, infoVars>>

\* run loop: case err = <-containerExit: return err
RunExit ==
    /\ mpc = "run"
    /\ waitPc = "sending"
    /\ waitPc' = "done"
    /\ result' = exitVal
    /\ mpc' = "returned"
    /\ logCtx' = DeferredCancel(mpc', result')
    /\ UNCHANGED <<allocVars, restVars, stopVars, containerID, outcome, contested, background, readySupplied,
                   readyCloses, deadline, probe, proc, exitVal, sig, exitStatus, setupVars, engineStatuses, infoVars>>

\* run loop: case <-sigCh: return c.Stop()
RunSignal ==
    /\ mpc = "run"
    /\ sig = "pending"
    /\ sig' = "taken"
    /\ mpc' = "signalStop"
    /\ UNCHANGED <<allocVars, restVars, stopVars, containerID, result, outcome, contested, background,
                   readySupplied, readyCloses, deadline, probe, proc, waitPc,
                   exitVal, exitStatus, logCtx, setupVars, engineStatuses, infoVars>>

\* a deadline case without its return: the call goes on behind the select
TimeoutFallsThrough == "closeReady"

\* case <-ctx.Done(): after c.Stop() the case ends in "return errors.Ctx()..."
TimeoutReturns == "truncate"

\* StartContainer calls c.Stop()
MainStopCall ==
    /\ mpc \in {"timeoutStop", "signalStop", "exitStop"}
    /\ scalls[Main] = 0
    /\ EnterStop(Main)
    /\ UNCHANGED <<allocVars, restVars, startVars>>

\* the value of err in the deadline branch: it was assigned by ContainerStart
\* at line 254 only, and the branch is reached when that value was nil
StartErrAtDeadline == "nil"

\* if stopErr := c.Stop(); err != nil { c.LogError(stopErr, "stop container") }:
\* the calls of c.LogStderr the statement makes; the condition reads err
StopFailureLogs(err, stopErr) == IF err # "nil" THEN 1 ELSE 0

\* c.Stop() has returned to StartContainer
MainAfterStop ==
    /\ mpc \in {"timeoutStop", "signalStop", "exitStop"}
    /\ spc[Main] = "done"
    /\ CASE mpc = "timeoutStop" ->
              /\ mpc' = TimeoutReturns
              /\ result' = result
              /\ errLog' = errLog + StopFailureLogs(StartErrAtDeadline, sres[Main])
         [] mpc = "signalStop" -> mpc' = "returned" /\ result' = sres[Main] /\ errLog' = errLog
         [] mpc = "exitStop" ->
              mpc' = "returned" /\ result' = "ExitedBeforeReady" /\ errLog' = errLog
    /\ logCtx' = DeferredCancel(mpc', result')
    /\ UNCHANGED <<cPorts, portnames, cmd, startTimeout, dbg, factorEnv, createRes, creates, regVars, ipVars>>
    /\ UNCHANGED <<allocVars, stopVars, containerID, outcome, contested, background, readySupplied,
                   readyCloses, deadline, probe, proc, waitPc, exitVal, sig, exitStatus, setupVars, engineStatuses, infoVars>>

\* Str("container-id", c.containerID[:12]).Just(ErrContainerDidntStart): the
\* slice expression panics when the id has fewer than 12 characters
Truncate ==
    /\ mpc = "truncate"
    /\ IF Len(containerID) < TruncatedIDLen
       THEN mpc' = "panicked" /\ result' = result
       ELSE mpc' = "returned" /\ result' = "DidntStart"
    /\ logCtx' = DeferredCancel(mpc', result')
    /\ UNCHANGED <<allocVars, restVars, stopVars, containerID, outcome, contested, background, readySupplied,
                   readyCloses, deadline, probe, proc, waitPc, exitVal, sig, exitStatus, setupVars, engineStatuses, infoVars>>

LifeNext ==
    \/ CreateContainer
    \/ StartEngine
    \/ PopulateHost
    \/ PopulateContainer
    \/ StartLogs
    \/ Register
    \/ Setup
    \/ DeadlineFires
    \/ ProbeStep
    \/ ProcExits
    \/ WaitError
    \/ WaitStatus
    \/ SendSignal
    \/ RaceDeadline
    \/ RaceExit
    \/ RaceReady
    \/ CloseReady
    \/ RunExit
    \/ RunSignal
    \/ MainStopCall
    \/ MainAfterStop
    \/ Truncate
    \/ \E t \in Stoppers : StopCall(t)
    \/ \E t \in StopCallers :
          \/ StopLock(t)
          \/ StopCheck(t)
          \/ StopAlready(t)
          \/ StopSet(t)
          \/ StopUnlock(t)
          \/ StopEngine(t)

LifeSpec == LifeInit /\ [][LifeNext]_vars

\* the steps of the goroutines of the program: the Go scheduler runs every
\* goroutine that is able to run. Nothing is assumed of the environment (the
\* process, the timers, the signal, the outside callers of Stop()), except
\* that the engine reports the exit of a process that has exited
LifeFairness ==
    /\ WF_vars(StartEngine) /\ WF_vars(PopulateHost) /\ WF_vars(PopulateContainer)
    /\ WF_vars(StartLogs) /\ WF_vars(Register) /\ WF_vars(Setup)
    /\ WF_vars(ProbeStep) /\ WF_vars(WaitStatus)
    /\ WF_vars(RaceDeadline \/ RaceExit \/ RaceReady)
    /\ WF_vars(CloseReady) /\ WF_vars(RunExit \/ RunSignal)
    /\ WF_vars(MainStopCall) /\ WF_vars(MainAfterStop) /\ WF_vars(Truncate)
    /\ \A t \in StopCallers :
          WF_vars(StopLock(t) \/ StopCheck(t) \/ StopAlready(t) \/ StopSet(t)
                  \/ StopUnlock(t) \/ StopEngine(t))

LifeFairSpec == LifeSpec /\ LifeFairness

(***************************************************************************)
(* StartContainer and its exit-wait task over every exit status the engine *)
(* may report, with no caller of Stop() besides StartContainer             *)
(***************************************************************************)
WaitInit ==
    /\ IPParked
    /\ engineStatuses = ExitStatuses
    /\ AllocParked
    /\ NewBaseContainer
    /\ client = "contract"
    /\ ConfParked
    /\ NewDockerNetwork
    /\ background \in BOOLEAN
    /\ readySupplied \in BOOLEAN

WaitNext ==
    \/ CreateContainer
    \/ StartEngine
    \/ PopulateHost
    \/ PopulateContainer
    \/ StartLogs
    \/ Register
    \/ Setup
    \/ DeadlineFires
    \/ ProbeStep
    \/ ProcExits
    \/ WaitError
    \/ WaitStatus
    \/ SendSignal
    \/ RaceDeadline
    \/ RaceExit
    \/ RaceReady
    \/ CloseReady
    \/ RunExit
    \/ RunSignal
    \/ MainStopCall
    \/ MainAfterStop
    \/ Truncate
    \/ StopLock(Main)
    \/ StopCheck(Main)
    \/ StopSet(Main)
    \/ StopUnlock(Main)
    \/ StopEngine(Main)

WaitSpec == WaitInit /\ [][WaitNext]_vars

\* the runtime fires the timer of a context made by context.WithTimeout when
\* its timeout has elapsed, and a select with a ready case takes one of its
\* ready cases. Nothing is assumed of the process or of the readiness probe:
\* the process may run forever and the probe may never resolve
RaceFairness ==
    /\ WF_vars(DeadlineFires)
    /\ WF_vars(RaceDeadline \/ RaceExit \/ RaceReady)

RaceFairSpec == WaitSpec /\ RaceFairness

(***************************************************************************)
(* CreateContainer on its own, over the configurations of a controller     *)
(***************************************************************************)
CreateInit ==
    /\ IPParked
    /\ engineStatuses = FailingEngine
    /\ AllocParked
    /\ NewBaseContainer
    /\ client = "contract"
    /\ NewDockerNetwork
    /\ background = FALSE
    /\ readySupplied = FALSE
    /\ \/ \E pb \in PortInputs :
             ConfFields(pb, NoDebug, <<>>, Duration(<<"1">> \o [i \in 1..9 |-> "0"]), <<"/app">>)
       \/ \E d \in DebugConfigs, env \in FactorInputs, t \in TimeoutInputs, c \in CmdInputs :
             ConfFields(LifePorts, d, env, t, c)

CreateNext == CreateContainer

CreateSpec == CreateInit /\ [][CreateNext]_vars

(***************************************************************************)
(* The start of a container through the Docker adapter, up to the end of   *)
(* the loop that fills the host-side endpoints                             *)
(***************************************************************************)
EndpointInit ==
    /\ IPParked
    /\ engineStatuses = FailingEngine
    /\ AllocParked
    /\ NewBaseContainer
    /\ client = "docker"
    /\ NewDockerNetwork
    /\ background = FALSE
    /\ readySupplied = FALSE
    /\ \E pb \in PortInputs, d \in DebugConfigs :
          ConfFields(pb, d, <<>>, Duration(<<"1">> \o [i \in 1..9 |-> "0"]), <<"/app">>)

EndpointNext == CreateContainer \/ StartEngine \/ PopulateHost

EndpointSpec == EndpointInit /\ [][EndpointNext]_vars

\* a caller that calls CreateContainer more than once
RecreateNext == CreateContainer \/ CreateAgain

RecreateSpec == CreateInit /\ [][RecreateNext]_vars

(***************************************************************************)
(* The registry on its own                                                 *)
(***************************************************************************)
RegistryInit ==
    /\ IPParked
    /\ engineStatuses = FailingEngine
    /\ AllocParked
    /\ NewBaseContainer
    /\ client = "contract"
    /\ ConfParked
    /\ NewDockerNetwork
    /\ background = FALSE
    /\ readySupplied = FALSE

RegistryNext == AddContainer

RegistrySpec == RegistryInit /\ [][RegistryNext]_vars

(***************************************************************************)
(* HostIP/NextIP on their own, with the membership of the network changing *)
(***************************************************************************)
IPInit ==
    /\ engineStatuses = FailingEngine
    /\ AllocParked
    /\ NewBaseContainer
    /\ client = "contract"
    /\ ConfParked
    /\ NewDockerNetwork
    /\ background = FALSE
    /\ readySupplied = FALSE
    /\ \E sn \in SubnetInputs, held \in SUBSET MemberPool : NewSubnetRange(sn, held)

IPNext ==
    \/ IPCall
    \/ SubnetNext
    \/ CheckFree
    \/ IPReturn
    \/ MemberChange

IPSpec == IPInit /\ [][IPNext]_vars

(***************************************************************************)
(* Properties of Stop() and of the startup race                            *)
(***************************************************************************)
\* the Stop() calls that took the stopped flag (found it clear and set it):
\* those still on their way to the engine and those that returned its result
TakingNow == {t \in StopCallers : spc[t] \in {"unlock", "engine"}}
TookAndReturned == {i \in 1..Len(stopLog) : stopLog[i].res # "AlreadyStopped"}

\* StartContainer is over
Returned == mpc \in {"returned", "panicked"}

\* C6: when the Stop() calls on a controller follow one another, the first
\* returns the result of the engine's stop, every later one returns
\* AlreadyStopped, and the engine's stop was invoked exactly once, with a
\* zero grace period.
C6_SequentialStops ==
    (~everConcurrent /\ Len(stopLog) >= 1) =>
        /\ Len(engineStops) = 1
        /\ engineStops[1].by = stopLog[1].by
        /\ engineStops[1].res = stopLog[1].res
        /\ engineStops[1].grace = 0
        /\ \A i \in 2..Len(stopLog) : stopLog[i].res = "AlreadyStopped"

C6_Witness ==
    /\ ~everConcurrent
    /\ Len(stopLog) >= 2
    /\ stopLog[1].by = stopLog[2].by

\* C7: in every interleaving of Stop() calls, those of StartContainer
\* included, at most one caller takes the flag, only that caller invokes the
\* engine's stop, at most once, and every other caller gets AlreadyStopped.
C7_AtMostOneEngineStop ==
    /\ Cardinality(TakingNow) + Cardinality(TookAndReturned) <= 1
    /\ Len(engineStops) <= 1
    /\ Len(engineStops) = Cardinality(TookAndReturned)
    /\ \A i \in TookAndReturned :
          /\ engineStops[1].by = stopLog[i].by
          /\ engineStops[1].res = stopLog[i].res
    /\ \A t \in StopCallers : spc[t] = "already" => t \notin TakingNow

C7_Witness ==
    /\ everConcurrent
    /\ spc[Main] = "done"
    /\ Len(stopLog) >= 3
    /\ Len(engineStops) = 1

\* C26: while the engine stop of the caller that took the flag is still in
\* progress, the mutex is not held by that caller, so a Stop() arriving then
\* takes the mutex, finds the flag set and returns AlreadyStopped without
\* waiting: the mutex is never held across the engine call.
C26_DuplicateStopFailsFast ==
    /\ \A u \in cmutex : spc[u] \in {"check", "already", "set", "unlock"}
    /\ \A t \in StopCallers :
          spc[t] = "engine" =>
              /\ t \notin cmutex
              /\ stopped
              /\ \A u \in StopCallers \ {t} :
                    /\ spc[u] \notin {"set", "unlock", "engine"}
                    /\ (spc[u] = "lock" /\ cmutex = {}) => ENABLED StopLock(u)

C26_Witness ==
    \E t, u \in StopCallers :
        /\ t # u
        /\ spc[t] = "engine"
        /\ spc[u] = "done"
        /\ sres[u] = "AlreadyStopped"
        /\ engineStops = <<>>

\* C28: if the engine's start fails StartContainer returns the wrapped error
\* with no other effect: both endpoint directories stay empty, nothing is
\* registered, no log-stream and no exit-wait task is started, the
\* ready-notification channel is not closed and StartContainer does not call
\* Stop(), so no engine stop is made on its behalf.
C28_StartFailureNoEffect ==
    result = "startErr" =>
        /\ mpc = "returned"
        /\ hostWrites = 0
        /\ contWrites = 0
        /\ registered = 0
        /\ logCtx = "unset"
        /\ waitPc = "unstarted"
        /\ probe = "unstarted"
        /\ deadline = "unset"
        /\ readyCloses = 0
        /\ outcome = "none"
        /\ scalls[Main] = 0
        /\ \A i \in 1..Len(engineStops) : engineStops[i].by # Main

C28_Witness ==
    /\ result = "startErr"
    /\ mpc = "returned"
    /\ readySupplied
    /\ createRes = "nil"

\* C30: the stopped flag is set before the engine stop is attempted and is
\* never cleared: when the engine stop of the first Stop() has failed, every
\* Stop() returning after it returns AlreadyStopped and the engine stop is
\* not attempted again.
C30_FlagStaysAfterFailedStop ==
    [][/\ stopped => stopped'
       /\ engineStops' # <<>> => stopped'
       /\ (\E t \in StopCallers : spc'[t] = "engine") => stopped'
       /\ \A i \in 1..Len(stopLog') :
             stopLog'[i].res = "engineErr" =>
                 /\ \A j \in (i + 1)..Len(stopLog') : stopLog'[j].res = "AlreadyStopped"
                 /\ Len(engineStops') = 1
                 /\ \A t \in StopCallers : spc'[t] \notin {"set", "unlock", "engine"}]_vars

C30_Witness ==
    /\ Len(stopLog) >= 3
    /\ stopLog[1].res = "engineErr"
    /\ stopLog[Len(stopLog)].res = "AlreadyStopped"
    /\ \A t \in StopCallers : spc[t] = "done"

\* C8: when the deadline elapses with the probe unresolved and the process
\* still running, and the startup select takes the deadline case,
\* StartContainer returns the "did not start" error and the engine's stop
\* has been invoked exactly once.
C8_DeadlineReturnsDidntStart ==
    (outcome = "deadline" /\ ~contested /\ Returned) =>
        /\ mpc = "returned"
        /\ result = "DidntStart"
        /\ Len(engineStops) = 1

\* C32: on the deadline path StartContainer returns the "did not start" error
\* whatever the container id is, also an id of fewer than 12 characters and
\* the empty id left by a failed create: it never aborts while truncating
\* the id.
C32_DeadlineReturnsForEveryID ==
    /\ (mpc = "panicked") => outcome # "deadline"
    /\ (outcome = "deadline" /\ mpc = "returned") => result = "DidntStart"

\* C33: on the deadline path a failure of the cleanup Stop() (an engine stop
\* error, or AlreadyStopped because another caller stopped first) has been
\* written to the container's error stream once Stop() has returned to
\* StartContainer, before the "did not start" error is returned.
C33_StopFailureLogged ==
    (/\ outcome = "deadline"
     /\ mpc \in {"truncate", "returned", "panicked"}
     /\ sres[Main] \in {"engineErr", "AlreadyStopped"}) => errLog >= 1

\* C9 as stated: when the probe resolves with the deadline not passed and
\* the process still running, and the startup select takes the ready case,
\* StartContainer returns success and has closed the ready channel once.
C9_ReadyReturnsSuccess ==
    (outcome = "ready" /\ ~contested /\ Returned) =>
        /\ result = "nil"
        /\ readyCloses = IF readySupplied THEN 1 ELSE 0

\* C9 as amended: when the startup select takes the ready case, a supplied
\* ready channel is closed exactly once, before anything else; in background
\* mode StartContainer then returns success, otherwise it returns only from
\* the run loop, with the value received from the exit-wait task or with the
\* result of its own Stop().
C9_ReadyClosesOnceThenRuns ==
    outcome = "ready" =>
        /\ mpc \in {"closeReady", "run", "signalStop", "returned"}
        /\ readyCloses = IF mpc = "closeReady" \/ ~readySupplied THEN 0 ELSE 1
        /\ (mpc = "returned" /\ background) =>
              /\ result = "nil"
              /\ scalls[Main] = 0
        /\ (mpc = "returned" /\ ~background) =>
              \/ /\ scalls[Main] = 0
                 /\ waitPc = "done"
                 /\ result = exitVal
              \/ /\ spc[Main] = "done"
                 /\ sig = "taken"
                 /\ result = sres[Main]

C9_Witness ==
    /\ outcome = "ready"
    /\ ~contested
    /\ mpc = "returned"
    /\ readySupplied
    /\ readyCloses = 1
    /\ result = "nil"

\* C10: when the startup select takes the exit case, StartContainer returns
\* "exited before ready" and does not call Stop(): no engine stop is made by
\* it, and none at all unless some other caller calls Stop().
C10_ExitBeforeReadyNoStop ==
    outcome = "exit" =>
        /\ mpc = "returned"
        /\ result = "ExitedBeforeReady"
        /\ scalls[Main] = 0
        /\ \A i \in 1..Len(engineStops) : engineStops[i].by # Main
        /\ OutsideCalls = 0 => engineStops = <<>>

C10_Witness ==
    /\ outcome = "exit"
    /\ ~contested
    /\ mpc = "returned"
    /\ result = "ExitedBeforeReady"

\* C23: a StartContainer call that has entered the startup race always
\* leaves it, with one of its three cases, even if the process never exits
\* and the readiness probe never resolves: the deadline bounds the race.
C23_RaceIsLeft ==
    (mpc = "race") ~> (mpc \in {"timeoutStop", "returned", "closeReady"})

C23_Witness ==
    /\ mpc = "timeoutStop"
    /\ outcome = "deadline"
    /\ probe = "pending"
    /\ proc = "running"
    /\ waitPc = "waiting"

\* the positions of StartContainer before its startup select has taken a case
BeforeOutcome ==
    {"new", "created", "hostDir", "containerDir", "logs", "register", "setup", "race"}

\* the positions of the run phase: behind the select, up to the return
RunPhase == {"closeReady", "run", "signalStop"}

\* C24: a StartContainer call that reaches the startup race resolves it with
\* exactly one of the outcomes timed out, exited before ready, ready, which
\* never changes afterwards, and only the ready outcome leads to Running:
\* after a timeout or an exit before ready the ready-notification channel is
\* not closed and the run phase is not entered.
C24_OneOutcomeOnlyReadyRuns ==
    [][/\ outcome # "none" => outcome' = outcome
       /\ outcome' \in {"none", "deadline", "exit", "ready"}
       /\ (outcome' = "none") <=>
             (mpc' \in BeforeOutcome \/ (mpc' = "returned" /\ result' = "startErr"))
       /\ outcome' \in {"deadline", "exit"} =>
             /\ readyCloses' = 0
             /\ mpc' \notin RunPhase
             /\ sig' # "taken"
       /\ mpc' \in RunPhase => outcome' = "ready"]_vars

C24_Witness ==
    /\ outcome = "deadline"
    /\ mpc = "returned"
    /\ readySupplied
    /\ ProbeResolved
    /\ readyCloses = 0

\* C25: when the exit of the process and readiness are both available as the
\* startup select runs (the deadline not passed), the outcome is fixed by the
\* availability of the signals: the select cannot take the exit case in one
\* run and the ready case in another.
C25_RaceChoiceDetermined ==
    (mpc = "race" /\ proc = "exited" /\ exitStatus # NoStatus /\ waitPc = "sending"
        /\ ProbeResolved /\ deadline = "armed") =>
        ~(ENABLED RaceExit /\ ENABLED RaceReady)

(***************************************************************************)
(* Properties of the run phase, the exit-wait task, the log stream, the    *)
(* endpoint directories and the default readiness probe                    *)
(***************************************************************************)
\* C11: once Running with the background flag unset, StartContainer has not
\* returned until the exit-wait task delivers or a stop signal is received,
\* and it returns the delivered value in the first case and the result of
\* its own Stop() in the second; with the flag set it returns success right
\* after readiness, without waiting for either.
C11_RunLoopReturns ==
    /\ mpc \in {"run", "signalStop"} =>
          /\ ~background
          /\ outcome = "ready"
          /\ result = "none"
    /\ (outcome = "ready" /\ mpc = "returned") =>
          IF background
          THEN /\ result = "nil"
               /\ waitPc # "done"
               /\ sig = "none"
               /\ scalls[Main] = 0
          ELSE \/ /\ waitPc = "done"
                  /\ sig # "taken"
                  /\ result = exitVal
                  /\ scalls[Main] = 0
               \/ /\ sig = "taken"
                  /\ waitPc # "done"
                  /\ spc[Main] = "done"
                  /\ result = sres[Main]

C11_Witness ==
    /\ outcome = "ready"
    /\ ~background
    /\ mpc = "returned"
    /\ sig = "taken"
    /\ waitPc = "sending"
    /\ result = "engineErr"

\* C12: the exit-wait task delivers nil for a clean exit (status code 0, no
\* status error), and an error for an exit with a non-zero status code or a
\* status error and for a failure of the engine's wait.
C12_FailedExitNeverNil ==
    waitPc \in {"sending", "done"} =>
        /\ exitStatus = NoStatus => exitVal = "exitErr"
        /\ (exitStatus # NoStatus /\ exitStatus.code = 0 /\ ~exitStatus.error) =>
              exitVal = "nil"
        /\ (exitStatus # NoStatus /\ (exitStatus.code # 0 \/ exitStatus.error)) =>
              exitVal # "nil"

\* C13: whenever StartContainer is over (returned or panicked) and it had
\* started the log-streaming task, the context of that task is cancelled.
C13_LogsCancelledOnReturn ==
    /\ (Returned /\ logCtx # "unset") => logCtx = "cancelled"
    /\ (Returned /\ deadline # "unset") => logCtx = "cancelled"

C13_Witness ==
    /\ outcome = "deadline"
    /\ mpc = "returned"
    /\ result = "DidntStart"
    /\ logCtx = "cancelled"

\* C14: once the instance is registered or the startup race has begun, each
\* directory has received exactly one write per port binding, and the
\* instance is registered at most once.
C14_DirectoriesFilledFirst ==
    /\ hostWrites <= NumPorts
    /\ contWrites <= NumPorts
    /\ registered <= 1
    /\ (registered > 0 \/ deadline # "unset" \/ waitPc # "unstarted") =>
          /\ hostWrites = NumPorts
          /\ contWrites = NumPorts
    /\ (deadline # "unset" \/ waitPc # "unstarted") => registered = 1

C14_Witness ==
    /\ registered = 1
    /\ mpc = "returned"
    /\ outcome = "ready"
    /\ hostWrites = NumPorts
    /\ contWrites = NumPorts
    /\ NumPorts > 0

\* C15: once the container process has exited, the exit-wait task
\* eventually terminates.
C15_ExitWaitTerminates == (proc = "exited") ~> (waitPc = "done")

\* C16: the default probe never resolves the readiness signal once its
\* context is done.
C16_NoResolveAfterCancel == probe # "resolvedLate"

(***************************************************************************)
(* Properties of CreateContainer: the name index and the debug mode        *)
(***************************************************************************)
\* the bindings CreateContainer was given: setupDebug appends one to them
GivenPorts == IF dbg.enabled THEN SubSeq(cPorts, 1, Len(cPorts) - 1) ELSE cPorts

\* the stringified port values of a binding
PortKeys(b) == {PortOf(b.container), HostPortText(b)}

\* C17 as stated: for every binding, the index maps its stringified
\* container port and its stringified host port to the name of that binding.
C17_EveryBindingMapsItsName ==
    mpc = "created" =>
        \A i \in 1..Len(GivenPorts) : \A k \in PortKeys(GivenPorts[i]) :
            /\ k \in DOMAIN portnames
            /\ portnames[k] = GivenPorts[i].name

\* C17 as amended: the index holds exactly the stringified port values of
\* the bindings and maps each to the name of the last binding that carries
\* it, so both values of a binding map to its own name unless a later
\* binding of another name carries the value; [{http, 80/tcp, 8080}] maps
\* "80" and "8080" to "http".
C17_LastBindingNamesPort ==
    mpc = "created" =>
        /\ DOMAIN portnames = UNION {PortKeys(GivenPorts[i]) : i \in 1..Len(GivenPorts)}
        /\ \A k \in DOMAIN portnames :
              \E i \in 1..Len(GivenPorts) :
                 /\ k \in PortKeys(GivenPorts[i])
                 /\ \A j \in (i + 1)..Len(GivenPorts) : k \notin PortKeys(GivenPorts[j])
                 /\ portnames[k] = GivenPorts[i].name
        /\ GivenPorts = <<PortBind("http", <<"8", "0", "/", "t", "c", "p">>, 8080)>> =>
              portnames = (<<"8", "0">> :> "http") @@ (<<"8", "0", "8", "0">> :> "http")

C17_Witness ==
    /\ mpc = "created"
    /\ Len(GivenPorts) = 2
    /\ GivenPorts[1].name = "http"
    /\ GivenPorts[2].name = "admin"
    /\ PortOf(GivenPorts[2].container) = Itoa(GivenPorts[1].host)
    /\ portnames[Itoa(GivenPorts[1].host)] = "admin"

\* the step CreateContainer
Creates == mpc = "new" /\ mpc' = "created"

\* C18: with the debug port enabled CreateContainer appends one binding, of
\* the debug port's name, "<debug port>/tcp" and the base debug host port,
\* and makes the command the seven tokens of the debugger wrapper, the
\* last being the command of the debug configuration; with the debug port
\* disabled it leaves Ports and Cmd as they were.
C18_DebugAugmentation ==
    [][Creates =>
          IF dbg.enabled
          THEN /\ Len(cPorts') = Len(cPorts) + 1
               /\ SubSeq(cPorts', 1, Len(cPorts)) = cPorts
               /\ cPorts'[Len(cPorts')].name = DebugPortName
               /\ cPorts'[Len(cPorts')].host = BaseDebugPort
               /\ PortOf(cPorts'[Len(cPorts')].container) = Itoa(dbg.port)
               /\ Len(cmd') = 7
               /\ cmd'[1] = "/bin/dlv"
               /\ cmd'[6] = "exec"
               /\ cmd'[7] = dbg.command
               /\ dbg = DebugPort(TRUE, 4000, "/app") =>
                     /\ cPorts'[Len(cPorts')].container = <<"4", "0", "0", "0", "/", "t", "c", "p">>
                     /\ cmd'[7] = "/app"
          ELSE /\ cPorts' = cPorts
               /\ cmd' = cmd]_vars

C18_Witness ==
    /\ mpc = "created"
    /\ dbg = DebugPort(TRUE, 4000, "/app")
    /\ Len(cPorts) = NumPorts + 1
    /\ cPorts[Len(cPorts)].name = DebugPortName
    /\ Len(cmd) = 7
    /\ cmd[7] = "/app"

\* the product of the start timeout and the factor as an integer, exact
ExactProduct(t, f) ==
    MulBytes(Extend(t, Int64Bytes, WideBytes), Extend(f, Int64Bytes, WideBytes), WideBytes)

\* a wide integer that an int64 can hold
FitsInt64(w) == Extend(Trunc(w, Int64Bytes), Int64Bytes, WideBytes) = w

\* C19 as stated: in debug mode, when the variable holds an integer f the
\* start timeout becomes the previous start timeout multiplied by f; when it
\* is unset or unparsable the start timeout is unchanged, the bad value is
\* logged and CreateContainer fails only if the engine's create fails.
C19_TimeoutMultiplied ==
    [][(Creates /\ dbg.enabled) =>
          /\ (factorEnv # <<>> /\ Atoi(factorEnv).ok) =>
                Extend(startTimeout', Int64Bytes, WideBytes)
                   = ExactProduct(startTimeout, Atoi(factorEnv).val)
          /\ (factorEnv = <<>> \/ ~Atoi(factorEnv).ok) =>
                /\ startTimeout' = startTimeout
                /\ createRes' = "createErr" <=> containerID' = containerID]_vars

\* C19 as amended: the product is the one of 64-bit integers: the start
\* timeout becomes the previous one multiplied by f when that fits in an
\* int64 of nanoseconds, and the low 64 bits of the product otherwise.
C19_TimeoutMultipliedInt64 ==
    [][(Creates /\ dbg.enabled) =>
          /\ (factorEnv # <<>> /\ Atoi(factorEnv).ok) =>
                /\ startTimeout' = Trunc(ExactProduct(startTimeout, Atoi(factorEnv).val), Int64Bytes)
                /\ FitsInt64(ExactProduct(startTimeout, Atoi(factorEnv).val)) =>
                      Extend(startTimeout', Int64Bytes, WideBytes)
                         = ExactProduct(startTimeout, Atoi(factorEnv).val)
                /\ errLog' = errLog
          /\ (factorEnv = <<"3">> /\ startTimeout = Duration(<<"1">> \o [i \in 1..9 |-> "0"])) =>
                startTimeout' = Duration(<<"3">> \o [i \in 1..9 |-> "0"])
          /\ (factorEnv = <<>> \/ ~Atoi(factorEnv).ok) =>
                /\ startTimeout' = startTimeout
                /\ errLog' = errLog + (IF factorEnv = <<>> THEN 0 ELSE 1)
                /\ createRes' = "createErr" <=> containerID' = containerID
          /\ factorEnv \in {<<"a", "b", "c">>, <<"2", "x">>, <<"-">>, [i \in 1..20 |-> "9"]} =>
                startTimeout' = startTimeout]_vars

C19_Witness ==
    /\ mpc = "created"
    /\ dbg.enabled
    /\ factorEnv = <<"3">>
    /\ startTimeout = Duration(<<"9">> \o [i \in 1..10 |-> "0"])
    /\ createRes = "nil"

\* C35: CreateContainer is idempotent on the configuration of the controller:
\* a second call leaves Ports, Cmd and StartTimeout as the first call left
\* them, also in debug mode with a scale factor set.
C35_CreateIdempotent ==
    [][CreateAgain =>
          /\ cPorts' = cPorts
          /\ cmd' = cmd
          /\ startTimeout' = startTimeout]_vars

\* the host loop of StartContainer has ended
HostLoopDone == mpc = "containerDir"

\* the engine reports the host port of the binding as bound
ReportedBound(b) ==
    \E port \in DOMAIN startInfo.PortBinds :
        /\ Len(startInfo.PortBinds[port]) > 0
        /\ startInfo.PortBinds[port][1].HostPort = HostPortText(b)

\* C31: after CreateContainer and a StartContainer that got past the engine
\* start, every key of the host-side endpoint directory is the name of a
\* binding of Ports, and every binding of Ports whose host port the engine
\* reports as bound, the debug binding included, has an entry under its own
\* name, holding the endpoint of a binding of that name.
C31_HostEndpointsByName ==
    HostLoopDone =>
        /\ \A k \in DOMAIN hostAddress : \E i \in 1..Len(cPorts) : cPorts[i].name = k
        /\ \A i \in 1..Len(cPorts) :
              ReportedBound(cPorts[i]) =>
                 /\ cPorts[i].name \in DOMAIN hostAddress
                 /\ \E j \in 1..Len(cPorts) :
                       /\ cPorts[j].name = cPorts[i].name
                       /\ hostAddress[cPorts[i].name]
                             = JoinHostPort(ControllerHostIP, HostPortText(cPorts[j]))

\* C36: whenever ContainerStart reports success it supplies an info record,
\* so StartContainer never ranges over the port bindings of a missing
\* record: the Docker adapter does not return (nil, nil).
C36_SuccessSuppliesInfo ==
    /\ mpc = "hostDir" => ~startInfo.nil
    /\ mpc = "panicked" => proc # "running"

\* C22: CreateContainer records the identifier returned by the engine when
\* creation succeeds; when the engine's create fails it returns the creation
\* error and the identifier of the controller stays unset.
C22_CreateRecordsID ==
    [][CreateContainer =>
          \/ createRes' = "nil" /\ containerID' \in EngineIDs
          \/ createRes' = "createErr" /\ containerID = <<>> /\ containerID' = <<>>]_vars

C22_Witness == createRes = "createErr" /\ containerID = <<>> /\ mpc = "created"

(***************************************************************************)
(* Properties of HostIP and NextIP                                         *)
(***************************************************************************)
\* C21: every non-empty address HostIP or NextIP is about to return is an
\* address of the bound subnet with a last octet strictly between 2 and 254
\* that no member reported by the engine held when it was checked; the
\* result is empty only when the whole range has been passed, and when no
\* usable address remained in it.
C21_ReturnedAddressUsable ==
    ipc = "return" =>
        IF cand # NoIP
        THEN /\ cand[4] > 2 /\ cand[4] < 254
             /\ Overlaps(IPNet(cand, 32), nwSubnet)
             /\ cand = RangeAddr(nwSubnet, cursor - 1)
             /\ lastCheck.ip = cand
             /\ lastCheck.ok
             /\ cand \notin lastCheck.reported
        ELSE /\ cursor = RangeSize(nwSubnet)
             /\ \A i \in 0..(RangeSize(nwSubnet) - 1) :
                   LET a == RangeAddr(nwSubnet, i)
                   IN  (a[4] > 2 /\ a[4] < 254) => i < cursor

C21_Witness ==
    /\ ipc = "return"
    /\ cand = IPv4(10, 0, 0, 4)
    /\ IPv4(10, 0, 0, 3) \in lastCheck.reported
    /\ ipCalls = 1

\* C27: HostIP/NextIP skip an in-range address only when a live member
\* actually holds it: an address that isFreeIP has rejected, with the
\* engine's answer at hand, is the address of one of the reported members.
C27_OnlyBoundAddressesSkipped ==
    (lastCheck.ip # NoIP /\ lastCheck.ok /\ ~lastCheck.free) =>
        lastCheck.ip \in lastCheck.reported

(***************************************************************************)
(* Properties of the registry                                              *)
(***************************************************************************)
\* C20: AddContainer appends the info to the bucket of its type identifier
\* when the identifier is one of 0..39, and rejects every identifier from 40
\* on by its overflow check.
C20_OverflowRejectedByCheck ==
    lastAdd.outcome # "none" =>
        IF lastAdd.typeID < maxTypeID
        THEN /\ lastAdd.outcome = "added"
             /\ Len(containers[lastAdd.typeID]) > 0
        ELSE lastAdd.outcome = "overflowPanic"

====
